---- MODULE Spec2Model ----
(***************************************************************************)
(* A model of the sshterm session bridge: the login throttle               *)
(* (LoginThrottleService), the SSH session wrapper (SSHConnection), the    *)
(* session registry (SSHConnectionService) and the per-socket bridge       *)
(* (SocketHandler).                                                        *)
(*                                                                         *)
(* Time is counted in ticks of ten minutes: the default rolling window     *)
(* (10 minutes) is one tick and the default lockout (1 hour) is six.       *)
(***************************************************************************)
EXTENDS Integers, Sequences, FiniteSets, TLC

\* ------------------------------------------------------------------ bounds
\* addresses in one X-Forwarded-For header
MaxChain == 2
\* the longest password handed to the audit logger
MaxPwLen == 2
\* half seconds in the longest wait handed to formatRetryAfter
MaxHalfSeconds == 130
\* ticks of the clock in a run of the throttle on its own
MaxTime == 7
\* logins that get as far as authService.authenticate, over all sockets
MaxLogins == 3
\* 'data' events of all streams together
MaxChunks == 2
\* close() calls the session harness makes
MaxCloseCalls == 2
\* ticks of the clock in a run of the bridge
MaxBridgeTime == 2
\* logins in a run of the bridge with its sessions
MaxSessionLogins == 2
\* logins in a run of overlapping logins
MaxOverlap == 4
\* 'output' events of the session a generator listens to
MaxEmits == 3

\* ------------------------------------------------- throttle configuration
MaxFailures == 3
WindowMs == 1
LockoutMs == 6

\* a ThrottleRecord whose optional blockedUntil is not set
Undefined == -1
\* records.get(k) of a key the map does not hold
NoRec == [timestamps |-> <<>>, blockedUntil |-> Undefined, absent |-> TRUE]

Ips == {"ip1"}
\* the host strings that reach the throttle
Hosts == {"h", "H", " h"}
\* the client and the host strings the throttle harness calls it with
ThrottleIps == {"ip1"}
ThrottleHosts == {"h", "H"}

\* String.prototype.toLowerCase on the host strings of the model
ToLowerCase(h) == IF h = "H" THEN "h" ELSE h

Key(ip, host) == <<ip, ToLowerCase(host)>>
Keys == {Key(ip, h) : ip \in Ips, h \in Hosts}

VARIABLES
  now,            \* Date.now(), in ticks
  records,        \* LoginThrottleService.records
  thrCalls,       \* history: per key, the times of the registerFailure calls
                  \* since the key last had no record (saturating)
  thrReset,       \* history: per key, whether registerSuccess has cleared it
  envHost,        \* process.env.SSH_HOST
  sockState,      \* per socket: "idle", "connected" or "disconnected"
  sessionData,    \* SocketHandler.sessionData
  logins,         \* the login handlers that reached authenticate, by number
  nLogins,        \* how many there are
  connections,    \* SSHConnectionService.connections (its key set)
  conns,          \* the SSHConnection objects, by id
  subs,           \* <<socket, id>>: the bridge's listeners on a session
  activeSessions, \* AuthenticationService.activeSessions (its key set)
  audit,          \* the calls of auditLogger.logAuthFailure
  emitLog,        \* the socket.emit calls and socket closes of the last step
  lastLogin,      \* history: what the last step did for a login, if anything
  produced,       \* history: per session, the chunks its stream produced
                  \* while its client was subscribed
  sent,           \* history: per session, the output messages sent for it
  nChunks,        \* 'data' events so far
  raceAtDisc,     \* history: per socket, whether its disconnect came while
                  \* a login of it was awaiting createConnection
  scen,           \* history: the run of sequential failing logins so far
  fnIn,           \* the arguments of a function called on its own
  fnOut,          \* what it returned, <<>> before the call
  proc,           \* the server process: where its shutdown stands
  gen             \* a getTerminalOutput generator and its consumer

thrVars == <<now, records, thrCalls, thrReset>>
bridgeVars == <<envHost, sockState, sessionData, logins, nLogins, connections,
                conns, subs, activeSessions, audit, emitLog, lastLogin,
                produced, sent, nChunks, raceAtDisc, scen, fnIn, fnOut,
                proc, gen>>
vars == <<now, records, thrCalls, thrReset, envHost, sockState, sessionData,
          logins, nLogins, connections, conns, subs, activeSessions, audit,
          emitLog, lastLogin, produced, sent, nChunks, raceAtDisc, scen,
          fnIn, fnOut, proc, gen>>

\* ------------------------------------------------------------- sequences
RECURSIVE SelectWithin(_, _)
\* timestamps.filter(ts => now - ts <= windowMs)
SelectWithin(ts, t) ==
  IF ts = <<>> THEN <<>>
  ELSE IF t - Head(ts) <= WindowMs
       THEN <<Head(ts)>> \o SelectWithin(Tail(ts), t)
       ELSE SelectWithin(Tail(ts), t)

Max(a, b) == IF a >= b THEN a ELSE b

\* ------------------------------------------------------ LoginThrottleService
Rec(ts, bu) == [timestamps |-> ts, blockedUntil |-> bu, absent |-> FALSE]

\* rec.blockedUntil && rec.blockedUntil > now
LockActive(rec, t) == rec.blockedUntil # Undefined /\ rec.blockedUntil > t

\* an isBlocked that restarts the lockout of a key each time it is asked
IsBlockedExtends(recs, ip, host, t) ==
  LET k == Key(ip, host)
      rec == recs[k]
  IN IF rec.absent
     THEN [blocked |-> FALSE, retryAfterMs |-> 0, records |-> recs]
     ELSE IF LockActive(rec, t)
     THEN [blocked |-> TRUE, retryAfterMs |-> LockoutMs,
           records |-> [recs EXCEPT ![k] = Rec(rec.timestamps, t + LockoutMs)]]
     ELSE [blocked |-> FALSE, retryAfterMs |-> 0,
           records |-> [recs EXCEPT ![k] =
                          Rec(SelectWithin(rec.timestamps, t), rec.blockedUntil)]]

\* isBlocked: the answer and the records map it leaves behind
IsBlocked(recs, ip, host, t) ==
  LET k == Key(ip, host)
      rec == recs[k]
  IN IF rec.absent
     THEN [blocked |-> FALSE, retryAfterMs |-> 0, records |-> recs]
     ELSE IF LockActive(rec, t)
     THEN [blocked |-> TRUE, retryAfterMs |-> rec.blockedUntil - t, records |-> recs]
     ELSE LET kept == SelectWithin(rec.timestamps, t)
          IN IF Len(kept) >= MaxFailures
             THEN [blocked |-> TRUE, retryAfterMs |-> LockoutMs,
                   records |-> [recs EXCEPT ![k] = Rec(<<>>, t + LockoutMs)]]
             ELSE [blocked |-> FALSE, retryAfterMs |-> 0,
                   records |-> [recs EXCEPT ![k] = Rec(kept, rec.blockedUntil)]]

\* a registerFailure whose threshold test is > instead of >=
RegisterFailureLate(recs, ip, host, t) ==
  LET k == Key(ip, host)
      rec == recs[k]
  IN IF LockActive(rec, t)
     THEN [recs EXCEPT ![k] = Rec(rec.timestamps, Max(rec.blockedUntil, t + LockoutMs))]
     ELSE LET kept == SelectWithin(Append(rec.timestamps, t), t)
          IN IF Len(kept) > MaxFailures
             THEN [recs EXCEPT ![k] = Rec(<<>>, t + LockoutMs)]
             ELSE [recs EXCEPT ![k] = Rec(kept, rec.blockedUntil)]

\* a registerFailure that leaves a running lockout as it is
RegisterFailureNoExtend(recs, ip, host, t) ==
  LET k == Key(ip, host)
      rec == recs[k]
  IN IF LockActive(rec, t)
     THEN recs
     ELSE LET kept == SelectWithin(Append(rec.timestamps, t), t)
          IN IF Len(kept) >= MaxFailures
             THEN [recs EXCEPT ![k] = Rec(<<>>, t + LockoutMs)]
             ELSE [recs EXCEPT ![k] = Rec(kept, rec.blockedUntil)]

RegisterFailure(recs, ip, host, t) ==
  LET k == Key(ip, host)
      rec == recs[k]
  IN IF LockActive(rec, t)
     THEN [recs EXCEPT ![k] = Rec(rec.timestamps, Max(rec.blockedUntil, t + LockoutMs))]
     ELSE LET kept == SelectWithin(Append(rec.timestamps, t), t)
          IN IF Len(kept) >= MaxFailures
             THEN [recs EXCEPT ![k] = Rec(<<>>, t + LockoutMs)]
             ELSE [recs EXCEPT ![k] = Rec(kept, rec.blockedUntil)]

\* a registerSuccess that clears the failures and keeps the lockout
RegisterSuccessKeepsLock(recs, ip, host) ==
  LET k == Key(ip, host)
  IN IF recs[k].absent THEN recs
     ELSE [recs EXCEPT ![k] = Rec(<<>>, recs[k].blockedUntil)]

RegisterSuccess(recs, ip, host) == [recs EXCEPT ![Key(ip, host)] = NoRec]

\* ------------------------------------------------------------------ clock
Tick ==
  /\ now < MaxTime
  /\ now' = now + 1

\* ------------------------------------------------------------ the sockets
Sockets == {"s1"}
\* LoginThrottleService.getClientIp: the sockets of the model share an address
ClientIp(s) == "ip1"

LoginIds == 1..Max(MaxLogins, MaxOverlap)

\* process.env.SSH_PORT || '22'
EnvSshPort == 22

\* the delay of the forced exit, 30000 ms, in ticks of 10 s
ForceExitMs == 3

\* String.prototype.trim on the strings of the model
Trim(str) == IF str = " h" THEN "h" ELSE IF str = " " THEN "" ELSE str

\* the login payloads a client sends; port <<>> is a payload without port
Payload(u, p, h, port) ==
  [username |-> u, password |-> p, host |-> h, port |-> port]
Payloads ==
  { Payload("u", "p", "", <<>>), Payload("u", "p", "h", <<>>),
    Payload("u", "p", "H", <<22>>), Payload("u", "p", " h", <<>>),
    Payload("", "p", "h", <<>>), Payload("u", " ", "h", <<>>),
    Payload("u", "p", "h", <<70000>>) }

\* the chunks a stream produces (bytes), and Buffer.toString('utf-8') of each:
\* "A", the two bytes of e-acute, and the first of them alone, which decodes
\* to the replacement character
Chunks == {<<65>>, <<195, 169>>, <<195>>}
Utf8ToString(chunk) ==
  IF chunk = <<65>> THEN "A"
  ELSE IF chunk = <<195, 169>> THEN "e-acute"
  ELSE "U+FFFD"

\* the text of an error the ssh2 client or stream raises
RawError == "ECONNRESET"

\* -------------------------------------------------------------- messages
LoginResult(ok, text, arg) ==
  [sock |-> "", type |-> "loginResult", ok |-> ok, text |-> text, arg |-> arg,
   conn |-> 0, delivered |-> FALSE]
ErrorNotice(text) ==
  [sock |-> "", type |-> "error", ok |-> FALSE, text |-> text, arg |-> 0,
   conn |-> 0, delivered |-> FALSE]
OutputMsg(data, c) ==
  [sock |-> "", type |-> "output", ok |-> TRUE, text |-> data, arg |-> 0,
   conn |-> c, delivered |-> FALSE]
\* not a message: the server closing the socket, socket.disconnect(true)
CloseMark ==
  [sock |-> "", type |-> "close", ok |-> TRUE, text |-> "", arg |-> 0,
   conn |-> 0, delivered |-> FALSE]

\* ------------------------------------------------------------ the objects
NoData == [present |-> FALSE, sessionId |-> 0, sshConnectionId |-> 0]
EmptyData == [present |-> TRUE, sessionId |-> 0, sshConnectionId |-> 0]

NoConn == [exists |-> FALSE, stream |-> "none", conn |-> "none",
           emitted |-> <<>>, sock |-> "none", closeCalls |-> 0]
\* new SSHConnection(id, config, credentials, client, stream); sock is the
\* socket whose login made it (history)
NewConn(s) == [exists |-> TRUE, stream |-> "open", conn |-> "open",
               emitted |-> <<>>, sock |-> s, closeCalls |-> 0]

\* a run of the login handler from authenticate on: stage is where its
\* promise stands, client what has become of its ssh2 Client, replies the
\* loginResult messages it has sent
NoLogin == [stage |-> "unused", sock |-> "none", host |-> "", outcome |-> "none",
            client |-> "none", replies |-> 0]
NoLast == [kind |-> "none", sock |-> "none", id |-> 0, outcome |-> "none",
           teardown |-> "none", arg |-> <<>>]
NoScen == [ok |-> FALSE, sock |-> "none", host |-> "", n |-> 0, t0 |-> 0,
           busy |-> FALSE]

InFlight(l) == logins[l].stage \in {"connecting", "shell"}

\* the state the handlers of one step work on
Cur ==
  [conns |-> conns, connections |-> connections, sessionData |-> sessionData,
   sockState |-> sockState, subs |-> subs, activeSessions |-> activeSessions,
   emitLog |-> <<>>]

RECURSIVE SentAfter(_, _)
\* the output messages sent so far, per session, after the emits of a step
SentAfter(snt, log) ==
  IF log = <<>> THEN snt
  ELSE LET m == Head(log)
       IN SentAfter(IF m.type = "output" /\ m.delivered
                    THEN [snt EXCEPT ![m.conn] = Append(@, m.text)]
                    ELSE snt,
                    Tail(log))

Commit(W) ==
  /\ conns' = W.conns
  /\ connections' = W.connections
  /\ sessionData' = W.sessionData
  /\ sockState' = W.sockState
  /\ subs' = W.subs
  /\ activeSessions' = W.activeSessions
  /\ emitLog' = W.emitLog
  /\ sent' = SentAfter(sent, W.emitLog)

\* socket.emit: socket.io drops what is emitted on a closed socket
SockEmit(W, s, m) ==
  [W EXCEPT !.emitLog =
     Append(@, [m EXCEPT !.sock = s,
                         !.delivered = (W.sockState[s] = "connected")])]

\* ------------------------------------------------------------ SSHConnection
\* EventEmitter.emit, as far as the history of the session goes
EmitNote(W, c, ev) == [W EXCEPT !.conns[c].emitted = Append(@, ev)]

\* sshConnection.on('closed', ...) of createConnection
RegistryOnClosed(W, c) == [W EXCEPT !.connections = @ \ {c}]

\* SSHConnection.close
SSHClose(W, c) ==
  LET W1 == [W EXCEPT !.conns[c].stream = IF @ = "open" THEN "ended" ELSE @,
                      !.conns[c].conn = IF @ = "open" THEN "ended" ELSE @,
                      !.conns[c].closeCalls = @ + 1]
  IN RegistryOnClosed(EmitNote(W1, c, "closed"), c)

\* SSHConnection.isActive: a stream that is there and not destroyed
IsActive(cn) == cn.exists /\ cn.stream \in {"open", "ended"}

\* SSHConnectionService.getActiveConnectionsCount
ActiveCount(cs, reg) == Cardinality({c \in reg : IsActive(cs[c])})

\* SSHConnectionService.closeConnection
CloseConnection(W, c) ==
  IF c \in W.connections
  THEN [SSHClose(W, c) EXCEPT !.connections = @ \ {c}]
  ELSE W

\* a registry whose cleanup listeners are not wired
RegistryListenerMissing(W, c) == W

\* sshConnection.on('disconnect', ...) of createConnection
RegistryOnDisconnect(W, c) == CloseConnection(W, c)

\* sshConnection.on('error', ...) of createConnection
RegistryOnError(W, c) == CloseConnection(W, c)

\* AuthenticationService.invalidateSession
InvalidateSession(W, id) == [W EXCEPT !.activeSessions = @ \ {id}]

\* the socket's 'disconnect' listeners, in the order they were added: the
\* handler of setupDisconnectHandler up to its first await, the cleanups of
\* setupSSHEventHandlers, then the rest of the handler
OnSocketDisconnect(W, s) ==
  LET sd == W.sessionData[s]
      W1 == IF sd.present /\ sd.sshConnectionId # 0
            THEN CloseConnection(W, sd.sshConnectionId) ELSE W
      W2 == [W1 EXCEPT !.subs = {p \in @ : p[1] # s}]
      W3 == IF sd.present /\ sd.sessionId # 0
            THEN InvalidateSession(W2, sd.sessionId) ELSE W2
  IN [W3 EXCEPT !.sessionData[s] = NoData]

\* socket.disconnect(true)
SocketDisconnect(W, s) ==
  IF W.sockState[s] # "connected" THEN W
  ELSE OnSocketDisconnect(
         [W EXCEPT !.sockState[s] = "disconnected",
                   !.emitLog = Append(@, [CloseMark EXCEPT !.sock = s])], s)

\* a handleOutput that sends each chunk twice
HandleOutputTwice(W, s, c, data) ==
  SockEmit(SockEmit(W, s, OutputMsg(data, c)), s, OutputMsg(data, c))

\* handleOutput, handleDisconnect and handleError of setupSSHEventHandlers
HandleOutput(W, s, c, data) == SockEmit(W, s, OutputMsg(data, c))

HandleDisconnect(W, s, c) ==
  SocketDisconnect(SockEmit(W, s, ErrorNotice("SSH session closed")), s)

HandleError(W, s, c) ==
  SocketDisconnect(SockEmit(W, s, ErrorNotice(RawError)), s)

Subscribers(W, c) == {s \in Sockets : <<s, c>> \in W.subs}

\* this.emit('output', data.toString('utf-8'))
EmitOutput(W, c, chunk) ==
  LET W1 == EmitNote(W, c, "output")
  IN IF Subscribers(W1, c) = {} THEN W1
     ELSE HandleOutput(W1, CHOOSE s \in Subscribers(W1, c) : TRUE, c,
                       Utf8ToString(chunk))

\* this.emit('disconnect'): the registry's listener, then the bridge's
EmitDisconnect(W, c) ==
  LET listeners == Subscribers(W, c)
      W1 == RegistryOnDisconnect(EmitNote(W, c, "disconnect"), c)
  IN IF listeners = {} THEN W1
     ELSE HandleDisconnect(W1, CHOOSE s \in listeners : TRUE, c)

\* this.emit('error', error): the registry's listener, then the bridge's
EmitError(W, c) ==
  LET listeners == Subscribers(W, c)
      W1 == RegistryOnError(EmitNote(W, c, "error"), c)
  IN IF listeners = {} THEN W1
     ELSE HandleError(W1, CHOOSE s \in listeners : TRUE, c)

\* ------------------------------------------------- the login handler's tests
\* (host && host.trim()) || process.env.SSH_HOST || ''
EffectiveHost(p) ==
  IF p.host # "" /\ Trim(p.host) # "" THEN Trim(p.host) ELSE envHost

\* (host && host.trim().length > 0) ? host : process.env.SSH_HOST
SshHost(p) ==
  IF p.host # "" /\ Trim(p.host) # "" THEN p.host ELSE envHost

\* (typeof port === 'number' && Number.isFinite(port)) ? port : env port
SshPort(p) == IF p.port # <<>> THEN p.port[1] ELSE EnvSshPort

\* new Credentials(username, password) throws
CredentialsThrows(u, pw) == Trim(u) = "" \/ Trim(pw) = ""

\* AuthenticationService.authenticate answers AuthResult.failure
AuthenticateFails(u, pw) == u = "" \/ pw = ""

\* an SSHConfig that tests its host only
SSHConfigHostOnly(host, port) == Trim(host) = ""

\* new SSHConfig(host, port) throws
SSHConfigThrows(host, port) == Trim(host) = "" \/ port <= 0 \/ port > 65535

\* where the login handler stops, up to its call of createConnection
LoginPath(recs, s, p, t) ==
  IF /\ EffectiveHost(p) # ""
     /\ IsBlocked(recs, ClientIp(s), EffectiveHost(p), t).blocked
  THEN "blocked"
  ELSE IF p.username = "" \/ p.password = "" THEN "nocreds"
  ELSE IF CredentialsThrows(p.username, p.password) THEN "badcreds"
  ELSE IF AuthenticateFails(p.username, p.password) THEN "authfail"
  ELSE IF SshHost(p) = "" THEN "nohost"
  ELSE IF SSHConfigThrows(SshHost(p), SshPort(p)) THEN "badconfig"
  ELSE "connect"

Authenticates(path) == path \in {"authfail", "nohost", "badconfig", "connect"}

AuditRecord(s, host, reason) ==
  [ip |-> ClientIp(s), host |-> host, reason |-> reason, socketId |-> s]

\* ------------------------------------------------- history: the scenario
FirstConnect == \A s \in Sockets : sockState[s] = "idle"

ScenAfterConnect(s) ==
  IF FirstConnect
  THEN [ok |-> TRUE, sock |-> s, host |-> "", n |-> 0, t0 |-> 0, busy |-> FALSE]
  ELSE NoScen

ScenAfterLogin(s, p, path) ==
  IF /\ scen.ok /\ scen.sock = s /\ ~scen.busy
     /\ path = "connect"
     /\ scen.n = 0 \/ scen.host = p.host
  THEN [scen EXCEPT !.host = p.host, !.busy = TRUE,
                    !.t0 = IF scen.n = 0 THEN now ELSE @]
  ELSE NoScen

ScenAfterFailure ==
  IF scen.ok /\ scen.busy
  THEN [scen EXCEPT !.busy = FALSE, !.n = @ + 1]
  ELSE NoScen

\* ------------------------------------------------------------ the bridge
BridgeInit(h) ==
  /\ envHost = h
  /\ sockState = [s \in Sockets |-> "idle"]
  /\ sessionData = [s \in Sockets |-> NoData]
  /\ logins = [l \in LoginIds |-> NoLogin]
  /\ nLogins = 0
  /\ connections = {}
  /\ conns = [c \in LoginIds |-> NoConn]
  /\ subs = {}
  /\ activeSessions = {}
  /\ audit = <<>>
  /\ emitLog = <<>>
  /\ lastLogin = NoLast
  /\ produced = [c \in LoginIds |-> <<>>]
  /\ sent = [c \in LoginIds |-> <<>>]
  /\ nChunks = 0
  /\ raceAtDisc = [s \in Sockets |-> FALSE]
  /\ scen = NoScen

\* the process before any signal: the HTTP server listens, no exit timer is
\* set; exit is the exit code once it has exited
Running == [phase |-> "running", accepting |-> TRUE, timer |-> "off",
            elapsed |-> 0, exit |-> Undefined]
ProcInit == proc = Running

\* no generator of getTerminalOutput has been made
GenIdle ==
  gen = [pc |-> "unused", outputQueue |-> <<>>, isEnded |-> FALSE,
         listening |-> FALSE, yielded |-> <<>>, emitted |-> <<>>,
         live |-> FALSE]

\* no function is called on its own
FnIdle == fnIn = <<>> /\ fnOut = <<>>

ThrottleInit ==
  /\ now = 0
  /\ records = [k \in Keys |-> NoRec]
  /\ thrCalls = [k \in Keys |-> <<>>]
  /\ thrReset = [k \in Keys |-> "none"]

\* io.on('connection', ...)
Connect(s) ==
  /\ sockState[s] = "idle"
  /\ sockState' = [sockState EXCEPT ![s] = "connected"]
  /\ sessionData' = [sessionData EXCEPT ![s] = EmptyData]
  /\ emitLog' = <<>>
  /\ lastLogin' = NoLast
  /\ scen' = ScenAfterConnect(s)
  /\ UNCHANGED <<gen, proc, fnIn, fnOut, thrVars, envHost, logins, nLogins, connections, conns, subs,
                 activeSessions, audit, produced, sent, nChunks, raceAtDisc>>

\* the client closes the socket: the socket's 'disconnect' event
ClientDisconnect(s) ==
  /\ sockState[s] = "connected"
  /\ Commit(OnSocketDisconnect(
              [Cur EXCEPT !.sockState[s] = "disconnected"], s))
  /\ raceAtDisc' = [raceAtDisc EXCEPT ![s] =
       /\ \E l \in LoginIds : InFlight(l) /\ logins[l].sock = s
       /\ \A c \in connections : conns[c].sock # s]
  /\ lastLogin' = NoLast
  /\ scen' = NoScen
  /\ UNCHANGED <<gen, proc, fnIn, fnOut, thrVars, envHost, logins, nLogins, audit, produced, nChunks>>

\* socket.on('login', ...) up to the call of createConnection
HandleLogin(s, p) ==
  LET eh == EffectiveHost(p)
      ip == ClientIp(s)
      r == IsBlocked(records, ip, eh, now)
      path == LoginPath(records, s, p, now)
      id == nLogins + 1
      text == CASE path = "blocked" -> "Too many failed attempts. Try again in"
                [] path = "nocreds" -> "Username and password are required"
                [] path = "badcreds" -> "Authentication error"
                [] path = "authfail" -> "Username and password are required"
                [] path = "nohost" -> "SSH host not configured"
                [] OTHER -> "Authentication error"
      W0 == IF Authenticates(path)
            THEN [Cur EXCEPT !.activeSessions =
                    IF path = "authfail" THEN @ ELSE @ \cup {id}]
            ELSE Cur
      W1 == IF path = "connect" THEN W0
            ELSE SockEmit(W0, s, LoginResult(FALSE, text,
                          IF path = "blocked" THEN r.retryAfterMs ELSE 0))
  IN /\ sockState[s] = "connected"
     /\ Commit(W1)
     /\ records' = IF eh = "" THEN records
                   ELSE IF path = "authfail"
                   THEN RegisterFailure(r.records, ip, eh, now)
                   ELSE r.records
     /\ audit' = IF path = "authfail" /\ eh # ""
                 THEN Append(audit, AuditRecord(s, eh, "auth_failed"))
                 ELSE audit
     /\ nLogins' = IF Authenticates(path) THEN id ELSE nLogins
     /\ logins' = IF Authenticates(path)
                  THEN [logins EXCEPT ![id] =
                          [stage |-> IF path = "connect" THEN "connecting" ELSE "done",
                           sock |-> s,
                           host |-> IF path = "connect" THEN SshHost(p) ELSE "",
                           outcome |-> path,
                           client |-> IF path = "connect" THEN "connecting" ELSE "none",
                           replies |-> IF path = "connect" THEN 0 ELSE 1]]
                  ELSE logins
     /\ lastLogin' = [kind |-> "start", sock |-> s,
                      id |-> IF Authenticates(path) THEN id ELSE 0,
                      outcome |-> path, teardown |-> "none", arg |-> <<>>]
     /\ scen' = ScenAfterLogin(s, p, path)
     /\ UNCHANGED <<gen, proc, fnIn, fnOut, now, thrCalls, thrReset, envHost, produced, nChunks, raceAtDisc>>

\* client.on('ready', ...): the timer is cleared and the shell is asked for
ClientReady(l) ==
  /\ logins[l].client = "connecting"
  /\ logins' = [logins EXCEPT ![l].client = "ready",
                              ![l].stage = IF @ = "connecting" THEN "shell" ELSE @]
  /\ emitLog' = <<>>
  /\ lastLogin' = NoLast
  /\ UNCHANGED <<gen, proc, fnIn, fnOut, thrVars, envHost, sockState, sessionData, nLogins, connections,
                 conns, subs, activeSessions, audit, produced, sent, nChunks,
                 raceAtDisc, scen>>

\* a login message, in a run of at most MaxLogins logins that pass
\* authenticate
LoginMsg(s, p) ==
  /\ Authenticates(LoginPath(records, s, p, now)) => nLogins < MaxLogins
  /\ HandleLogin(s, p)

\* the catch (sshError) block of the login handler; cl is what has become of
\* the client and td the call the rejecting path of createConnection made on
\* it ("destroy", "end" or "none")
LoginFailed(l, text, cl, oc, td) ==
  LET s == logins[l].sock
      host == logins[l].host
  IN /\ Commit(SockEmit(Cur, s, LoginResult(FALSE, text, 0)))
     /\ records' = RegisterFailure(records, ClientIp(s), host, now)
     /\ audit' = Append(audit, AuditRecord(s, host, "ssh_connect_failed"))
     /\ logins' = [logins EXCEPT ![l].stage = "done", ![l].host = "",
                                 ![l].outcome = oc, ![l].client = cl,
                                 ![l].replies = @ + 1]
     /\ lastLogin' = [kind |-> "resume", sock |-> s, id |-> l,
                      outcome |-> "sshfail", teardown |-> td, arg |-> <<>>]
     /\ scen' = ScenAfterFailure
     /\ UNCHANGED <<gen, proc, fnIn, fnOut, now, thrCalls, thrReset, envHost, nLogins, produced, nChunks,
                    raceAtDisc>>

\* an event of a client whose promise is settled: reject and resolve do
\* nothing any more
LateEvent(l, cl) ==
  /\ logins' = [logins EXCEPT ![l].client = cl]
  /\ emitLog' = <<>>
  /\ lastLogin' = NoLast
  /\ UNCHANGED <<gen, proc, fnIn, fnOut, thrVars, envHost, sockState, sessionData, nLogins, connections,
                 conns, subs, activeSessions, audit, produced, sent, nChunks,
                 raceAtDisc, scen>>

\* a timer that rejects and leaves the client alone
ConnectTimeoutNoDestroy(l) ==
  /\ logins[l].stage = "connecting"
  /\ LoginFailed(l, "SSH connection timeout", logins[l].client, "timeout", "none")

\* the timer of createConnection fires: client.destroy(), reject
ConnectTimeout(l) ==
  /\ logins[l].stage = "connecting"
  /\ LoginFailed(l, "SSH connection timeout", "down", "timeout", "destroy")

\* client.on('error', ...) before the session exists: clearTimeout, reject.
\* The handler does not touch the client; torn says whether ssh2 closed the
\* transport itself with this error
ClientError(l, torn) ==
  /\ InFlight(l)
  /\ logins[l].client \in {"connecting", "ready"}
  /\ LoginFailed(l, "SSH connection failed: ECONNRESET",
                 IF torn THEN "down" ELSE logins[l].client, "sshfail", "none")

\* a client error with which ssh2 closes the transport itself
FatalClientError(l) == ClientError(l, TRUE)

\* a late error whose rejection reaches the login handler although the
\* promise is settled
LateClientErrorAnswers(l) ==
  /\ logins[l].stage = "done"
  /\ logins[l].client \in {"connecting", "ready"}
  /\ ~conns[l].exists
  /\ Commit(SockEmit(Cur, logins[l].sock,
                     LoginResult(FALSE, "SSH connection failed: ECONNRESET", 0)))
  /\ logins' = [logins EXCEPT ![l].client = "down", ![l].replies = @ + 1]
  /\ lastLogin' = [kind |-> "resume", sock |-> logins[l].sock, id |-> l,
                   outcome |-> "sshfail", teardown |-> "none", arg |-> <<>>]
  /\ UNCHANGED <<gen, proc, fnIn, fnOut, thrVars, envHost, nLogins, audit, produced,
                 nChunks, raceAtDisc, scen>>

\* client.on('error', ...) after the promise was settled without a session,
\* with ssh2 closing the transport
LateClientError(l) ==
  /\ logins[l].stage = "done"
  /\ logins[l].client \in {"connecting", "ready"}
  /\ ~conns[l].exists
  /\ LateEvent(l, "down")

\* client.shell calls back with an error: client.end(), reject
ShellError(l) ==
  /\ logins[l].client = "ready"
  /\ ~conns[l].exists
  /\ IF logins[l].stage = "shell"
     THEN LoginFailed(l, "Failed to create shell: ECONNRESET", "down", "sshfail",
                      "end")
     ELSE LateEvent(l, "down")

\* setupSSHEventHandlers
SetupSSHEventHandlers(W, s, c) ==
  IF c \in W.connections THEN [W EXCEPT !.subs = @ \cup {<<s, c>>}] ELSE W

\* client.shell calls back with the stream: the session is made, stored and
\* resolved, and the login handler, if it is still waiting, goes on after
\* its await
ShellOpen(l) ==
  LET s == logins[l].sock
      W1 == [Cur EXCEPT !.conns[l] = NewConn(s), !.connections = @ \cup {l}]
      W2 == [W1 EXCEPT !.sessionData[s] =
               [present |-> TRUE, sessionId |-> l, sshConnectionId |-> l]]
      W3 == SetupSSHEventHandlers(W2, s, l)
  IN /\ logins[l].client = "ready"
     /\ ~conns[l].exists
     /\ IF logins[l].stage = "shell"
        THEN /\ Commit(SockEmit(W3, s, LoginResult(TRUE, "", 0)))
             /\ records' = RegisterSuccess(records, ClientIp(s), logins[l].host)
             /\ logins' = [logins EXCEPT ![l].stage = "done", ![l].host = "",
                                         ![l].outcome = "success",
                                         ![l].replies = @ + 1]
             /\ lastLogin' = [kind |-> "resume", sock |-> s, id |-> l,
                              outcome |-> "success", teardown |-> "none",
                              arg |-> <<>>]
        ELSE /\ Commit(W1)
             /\ UNCHANGED <<records, logins>>
             /\ lastLogin' = NoLast
     /\ scen' = NoScen
     /\ UNCHANGED <<gen, proc, fnIn, fnOut, now, thrCalls, thrReset, envHost, nLogins, audit, produced,
                    nChunks, raceAtDisc>>

\* history: the client of session c is subscribed
ClientSubscribed(c) ==
  /\ <<conns[c].sock, c>> \in subs
  /\ sockState[conns[c].sock] = "connected"

\* the stream's 'data' event
StreamData(c, chunk) ==
  /\ conns[c].exists
  /\ conns[c].stream \in {"open", "ended"}
  /\ nChunks < MaxChunks
  /\ Commit(EmitOutput(Cur, c, chunk))
  /\ produced' = [produced EXCEPT ![c] =
                    IF ClientSubscribed(c) THEN Append(@, chunk) ELSE @]
  /\ nChunks' = nChunks + 1
  /\ lastLogin' = NoLast
  /\ scen' = NoScen
  /\ UNCHANGED <<gen, proc, fnIn, fnOut, thrVars, envHost, logins, nLogins, audit, raceAtDisc>>

\* the stream's 'close' event
StreamClose(c) ==
  /\ conns[c].exists
  /\ conns[c].stream # "closed"
  /\ Commit(EmitDisconnect([Cur EXCEPT !.conns[c].stream = "closed"], c))
  /\ lastLogin' = NoLast
  /\ scen' = NoScen
  /\ UNCHANGED <<gen, proc, fnIn, fnOut, thrVars, envHost, logins, nLogins, audit, produced, nChunks,
                 raceAtDisc>>

\* the ssh2 client's 'error' event once the session exists
ConnError(c) ==
  /\ conns[c].exists
  /\ conns[c].conn \in {"open", "ended"}
  /\ Commit(EmitError([Cur EXCEPT !.conns[c].conn = "failed"], c))
  /\ lastLogin' = NoLast
  /\ scen' = NoScen
  /\ UNCHANGED <<gen, proc, fnIn, fnOut, thrVars, envHost, logins, nLogins, audit, produced, nChunks,
                 raceAtDisc>>

BridgeTick ==
  /\ now < MaxBridgeTime
  /\ Tick
  /\ emitLog' = <<>>
  /\ lastLogin' = NoLast
  /\ UNCHANGED <<gen, proc, fnIn, fnOut, records, thrCalls, thrReset, envHost, sockState, sessionData,
                 logins, nLogins, connections, conns, subs, activeSessions,
                 audit, produced, sent, nChunks, raceAtDisc, scen>>

\* a login message, in a run of at most MaxSessionLogins logins
LoginMsgBounded(s, p) == nLogins < MaxSessionLogins /\ LoginMsg(s, p)

Init == ThrottleInit /\ FnIdle /\ ProcInit /\ GenIdle /\ \E h \in {"", "h"} : BridgeInit(h)

Next ==
  \/ \E s \in Sockets : Connect(s)
  \/ \E s \in Sockets : ClientDisconnect(s)
  \/ \E s \in Sockets, p \in Payloads : LoginMsgBounded(s, p)
  \/ \E l \in LoginIds : ClientReady(l)
  \/ \E l \in LoginIds : ConnectTimeout(l)
  \/ \E l \in LoginIds : FatalClientError(l)
  \/ \E l \in LoginIds : ShellError(l)
  \/ \E l \in LoginIds : ShellOpen(l)
  \/ \E c \in LoginIds, chunk \in Chunks : StreamData(c, chunk)
  \/ \E c \in LoginIds : StreamClose(c)
  \/ \E c \in LoginIds : ConnError(c)
  \/ BridgeTick

Spec == Init /\ [][Next]_vars

\* ---------------------------------------- the logins of one run of clients
\* the login handler and the outcomes of createConnection, with the clock
LoginNext ==
  \/ \E s \in Sockets : Connect(s)
  \/ \E s \in Sockets, p \in Payloads : LoginMsg(s, p)
  \/ \E l \in LoginIds : ClientReady(l)
  \/ \E l \in LoginIds : ConnectTimeout(l)
  \/ \E l \in LoginIds : FatalClientError(l)
  \/ \E l \in LoginIds : ShellError(l)
  \/ \E l \in LoginIds : ShellOpen(l)
  \/ BridgeTick

SpecLogin == Init /\ [][LoginNext]_vars

\* ------------------------------------------------------ overlapping logins
\* logins that overlap while they await createConnection and then fail: no
\* login succeeds and the clock stands still, and the hosts are sent without
\* surrounding whitespace, so that all the logins share the key of host "h"
SpecOverlap ==
  /\ Init
  /\ [][\/ \E s \in Sockets : Connect(s)
        \/ \E s \in Sockets, p \in {q \in Payloads : q.host = Trim(q.host)} :
             nLogins < MaxOverlap /\ HandleLogin(s, p)
        \/ \E l \in LoginIds : ConnectTimeout(l)
        \/ \E l \in LoginIds : FatalClientError(l)]_vars

\* ------------------------------------------------ input and resize messages
\* session?.sshConnectionId
HasSession(sd) == sd.present /\ sd.sshConnectionId # 0

\* the terminal sizes a client sends, <<cols, rows>>
Sizes == {<<80, 24>>, <<0, 10>>, <<10, 0>>}

\* a TerminalSize that tests its columns only
TerminalSizeColsOnly(size) == size[1] <= 0

\* new TerminalSize(cols, rows) throws
TerminalSizeThrows(size) == size[1] <= 0 \/ size[2] <= 0

\* what the stream does when it is written to or resized
StreamCalls == {"ok", "throws"}

\* where TerminalService.handleInput stops for the socket's session
InputPath(sd, reg, cs, wr) ==
  IF ~HasSession(sd) THEN "nosession"
  ELSE IF sd.sshConnectionId \notin reg THEN "notfound"
  ELSE IF ~IsActive(cs[sd.sshConnectionId]) THEN "inactive"
  ELSE IF wr = "throws" THEN "callerror"
  ELSE "done"

\* a resize handler that builds the TerminalSize before it looks for the
\* session
ResizePathSizeFirst(sd, reg, cs, size, wr) ==
  IF TerminalSizeThrows(size) THEN "badsize"
  ELSE IF ~HasSession(sd) THEN "nosession"
  ELSE InputPath(sd, reg, cs, wr)

\* where the resize handler and TerminalService.handleResize stop
ResizePath(sd, reg, cs, size, wr) ==
  IF ~HasSession(sd) THEN "nosession"
  ELSE IF TerminalSizeThrows(size) THEN "badsize"
  ELSE InputPath(sd, reg, cs, wr)

\* the text of the error the handlers catch
TerminalErrorText(path, what) ==
  CASE path = "notfound" -> "SSH connection not found"
    [] path = "inactive" -> "SSH connection is not active"
    [] path = "badsize" -> "Terminal dimensions must be positive"
    [] path = "callerror" /\ what = "input"
         -> "Failed to send input to SSH connection: ECONNRESET"
    [] OTHER -> "Failed to resize terminal: ECONNRESET"

\* an input handler that closes the socket when forwarding fails
InputFailedCloses(W, s, text) ==
  SocketDisconnect(SockEmit(W, s, ErrorNotice(text)), s)

\* the catch block of the input handler
InputFailed(W, s, text) == SockEmit(W, s, ErrorNotice(text))

\* socket.on('input', ...)
InputMsg(s, wr) ==
  LET sd == sessionData[s]
      path == InputPath(sd, connections, conns, wr)
      W == CASE path = "nosession"
                  -> SockEmit(Cur, s, ErrorNotice("No active SSH connection"))
             [] path = "done" -> Cur
             [] OTHER -> InputFailed(Cur, s, TerminalErrorText(path, "input"))
  IN /\ sockState[s] = "connected"
     /\ Commit(W)
     /\ lastLogin' = [kind |-> "input", sock |-> s, id |-> sd.sshConnectionId,
                      outcome |-> path, teardown |-> "none", arg |-> <<>>]
     /\ UNCHANGED <<gen, proc, fnIn, fnOut, thrVars, envHost, logins, nLogins, audit, produced, nChunks,
                    raceAtDisc, scen>>

\* socket.on('resize', ...)
ResizeMsg(s, size, wr) ==
  LET sd == sessionData[s]
      path == ResizePath(sd, connections, conns, size, wr)
      W == IF path \in {"nosession", "done"} THEN Cur
           ELSE SockEmit(Cur, s, ErrorNotice(TerminalErrorText(path, "resize")))
  IN /\ sockState[s] = "connected"
     /\ Commit(W)
     /\ lastLogin' = [kind |-> "resize", sock |-> s, id |-> sd.sshConnectionId,
                      outcome |-> path, teardown |-> "none", arg |-> size]
     /\ UNCHANGED <<gen, proc, fnIn, fnOut, thrVars, envHost, logins, nLogins, audit, produced, nChunks,
                    raceAtDisc, scen>>

\* the bridge with its terminal messages
TerminalNext ==
  \/ \E s \in Sockets : Connect(s)
  \/ \E s \in Sockets : ClientDisconnect(s)
  \/ \E s \in Sockets, p \in Payloads : LoginMsgBounded(s, p)
  \/ \E l \in LoginIds : ClientReady(l)
  \/ \E l \in LoginIds : ShellError(l)
  \/ \E l \in LoginIds : ShellOpen(l)
  \/ \E c \in LoginIds : StreamClose(c)
  \/ \E s \in Sockets, wr \in StreamCalls : InputMsg(s, wr)
  \/ \E s \in Sockets, size \in Sizes, wr \in StreamCalls : ResizeMsg(s, size, wr)

SpecTerminal == Init /\ [][TerminalNext]_vars

\* ------------------------------------------------------ closeAllConnections
RECURSIVE CloseEach(_, _)
\* closeConnection(id) for each of ids
CloseEach(W, ids) ==
  IF ids = {} THEN W
  ELSE LET c == CHOOSE x \in ids : TRUE
       IN CloseEach(CloseConnection(W, c), ids \ {c})

\* a closeAllConnections that closes one of the sessions only
CloseAllButOne(W) ==
  IF W.connections = {} THEN W
  ELSE CloseConnection(W, CHOOSE x \in W.connections : TRUE)

\* closeAllConnections: the calls of closeConnection run to their end, one
\* after the other, inside the map; Promise.all then resolves
CloseAllConnections(W) == CloseEach(W, W.connections)

\* await sshConnectionService.closeAllConnections()
CloseAll ==
  /\ Commit(CloseAllConnections(Cur))
  /\ lastLogin' = [kind |-> "closeAll", sock |-> "none", id |-> 0,
                   outcome |-> "done", teardown |-> "none",
                   arg |-> <<connections>>]
  /\ scen' = NoScen
  /\ UNCHANGED <<gen, proc, fnIn, fnOut, thrVars, envHost, logins, nLogins, audit, produced,
                 nChunks, raceAtDisc>>

SpecCloseAll ==
  /\ Init
  /\ [][\/ \E s \in Sockets : Connect(s)
        \/ \E s \in Sockets : ClientDisconnect(s)
        \/ \E s \in Sockets, p \in Payloads : LoginMsgBounded(s, p)
        \/ \E l \in LoginIds : ClientReady(l)
        \/ \E l \in LoginIds : ShellOpen(l)
        \/ \E c \in LoginIds, chunk \in Chunks : StreamData(c, chunk)
        \/ \E c \in LoginIds : StreamClose(c)
        \/ CloseAll]_vars

\* ---------------------------------------------------------- gracefulShutdown
\* process.exit has not been called
ProcAlive == proc.phase # "exited"

\* everything but proc and the bridge state that closeAllConnections changes
shutdownKept == <<gen, fnIn, fnOut, thrVars, envHost, logins, nLogins, audit, produced,
                  nChunks, raceAtDisc, scen>>

\* SIGTERM or SIGINT: server.close(callback) stops the listening, and the
\* timer of the forced exit is set
Signal ==
  /\ proc.phase = "running"
  /\ proc' = [proc EXCEPT !.phase = "closing", !.accepting = FALSE,
                          !.timer = "set"]
  /\ Commit(Cur)
  /\ lastLogin' = NoLast
  /\ UNCHANGED shutdownKept

\* the callback of server.close, which the server calls once its last
\* connection has ended: closeAllConnections, then process.exit(0)
ServerClosed ==
  /\ proc.phase = "closing"
  /\ \A s \in Sockets : sockState[s] # "connected"
  /\ Commit(CloseAllConnections(Cur))
  /\ proc' = [proc EXCEPT !.phase = "exited", !.exit = 0]
  /\ lastLogin' = [kind |-> "closeAll", sock |-> "none", id |-> 0,
                   outcome |-> "done", teardown |-> "none",
                   arg |-> <<connections>>]
  /\ UNCHANGED shutdownKept

\* time passes for the timer of the forced exit
ShutdownTick ==
  /\ proc.phase = "closing"
  /\ proc.timer = "set"
  /\ proc.elapsed < ForceExitMs
  /\ proc' = [proc EXCEPT !.elapsed = @ + 1]
  /\ Commit(Cur)
  /\ lastLogin' = NoLast
  /\ UNCHANGED shutdownKept

\* a process whose timer of the forced exit never fires
ForceExitNever ==
  /\ proc.phase = "exited"
  /\ proc.timer = "set"
  /\ UNCHANGED vars

\* the timer of the forced exit fires: process.exit(1)
ForceExit ==
  /\ proc.phase = "closing"
  /\ proc.timer = "set"
  /\ proc.elapsed >= ForceExitMs
  /\ proc' = [proc EXCEPT !.phase = "exited", !.exit = 1]
  /\ Commit(Cur)
  /\ lastLogin' = NoLast
  /\ UNCHANGED shutdownKept

\* the bridge goes on while the process lives, and the HTTP server takes a
\* new client connection while it listens; time passes and a timer that is
\* due fires
SpecShutdown ==
  /\ Init
  /\ [][\/ \E s \in Sockets : ProcAlive /\ proc.accepting /\ Connect(s)
        \/ \E s \in Sockets : ProcAlive /\ ClientDisconnect(s)
        \/ \E s \in Sockets, p \in Payloads : ProcAlive /\ LoginMsgBounded(s, p)
        \/ \E l \in LoginIds : ProcAlive /\ ClientReady(l)
        \/ \E l \in LoginIds : ProcAlive /\ ShellOpen(l)
        \/ Signal
        \/ ServerClosed
        \/ ShutdownTick
        \/ ForceExit]_vars
  /\ WF_vars(ShutdownTick)
  /\ WF_vars(ForceExit)

\* --------------------------------------------- createConnection on its own
\* the logins of one socket and every event of their ssh2 clients, the ones
\* that come after the promise is settled included
ConnectNext ==
  \/ \E s \in Sockets : Connect(s)
  \/ \E s \in Sockets, p \in Payloads : LoginMsgBounded(s, p)
  \/ \E l \in LoginIds : ClientReady(l)
  \/ \E l \in LoginIds : ConnectTimeout(l)
  \/ \E l \in LoginIds, torn \in BOOLEAN : ClientError(l, torn)
  \/ \E l \in LoginIds : LateClientError(l)
  \/ \E l \in LoginIds : ShellError(l)
  \/ \E l \in LoginIds : ShellOpen(l)

SpecConnect == Init /\ [][ConnectNext]_vars

\* createConnection with its timer: a timer that is armed fires unless it is
\* cleared (it is armed from the call until 'ready' or an error of the
\* client); when the remote lets the client call back is up to the remote
SpecAnswer ==
  /\ Init
  /\ [][ConnectNext]_vars
  /\ \A l \in LoginIds : WF_vars(ConnectTimeout(l))

\* ------------------------------------------------- the session on its own
\* a harness that holds one SSHConnection and calls close() on it
SessInit ==
  /\ ThrottleInit
  /\ FnIdle
  /\ ProcInit
  /\ GenIdle
  /\ envHost = "h"
  /\ sockState = [s \in Sockets |-> "idle"]
  /\ sessionData = [s \in Sockets |-> NoData]
  /\ logins = [l \in LoginIds |-> NoLogin]
  /\ nLogins = 0
  /\ connections = {}
  /\ conns = [c \in LoginIds |-> IF c = 1 THEN NewConn("none") ELSE NoConn]
  /\ subs = {}
  /\ activeSessions = {}
  /\ audit = <<>>
  /\ emitLog = <<>>
  /\ lastLogin = NoLast
  /\ produced = [c \in LoginIds |-> <<>>]
  /\ sent = [c \in LoginIds |-> <<>>]
  /\ nChunks = 0
  /\ raceAtDisc = [s \in Sockets |-> FALSE]
  /\ scen = NoScen

\* connection.close()
SessClose(c) ==
  /\ conns[c].exists
  /\ conns[c].closeCalls < MaxCloseCalls
  /\ Commit(SSHClose(Cur, c))
  /\ UNCHANGED <<gen, proc, fnIn, fnOut, thrVars, envHost, logins, nLogins, audit, lastLogin, produced,
                 nChunks, raceAtDisc, scen>>

SessNext ==
  \/ \E c \in LoginIds, chunk \in Chunks : StreamData(c, chunk)
  \/ \E c \in LoginIds : StreamClose(c)
  \/ \E c \in LoginIds : ConnError(c)
  \/ \E c \in LoginIds : SessClose(c)

SpecSession == SessInit /\ [][SessNext]_vars

\* ---------------------------------------- writeInput and resize on their own
\* a harness that holds one SSHConnection, built with a stream or without
\* one, and calls writeInput, resize and close() on it
StreamCallInit ==
  /\ ThrottleInit
  /\ FnIdle
  /\ ProcInit
  /\ GenIdle
  /\ envHost = "h"
  /\ sockState = [s \in Sockets |-> "idle"]
  /\ sessionData = [s \in Sockets |-> NoData]
  /\ logins = [l \in LoginIds |-> NoLogin]
  /\ nLogins = 0
  /\ connections = {}
  /\ \E st \in {"open", "none"} :
       conns = [c \in LoginIds |->
                  IF c = 1 THEN [NewConn("none") EXCEPT !.stream = st] ELSE NoConn]
  /\ subs = {}
  /\ activeSessions = {}
  /\ audit = <<>>
  /\ emitLog = <<>>
  /\ lastLogin = NoLast
  /\ produced = [c \in LoginIds |-> <<>>]
  /\ sent = [c \in LoginIds |-> <<>>]
  /\ nChunks = 0
  /\ raceAtDisc = [s \in Sockets |-> FALSE]
  /\ scen = NoScen

\* writeInput and resize: "unavailable" is the throw of 'SSH stream not
\* available', "called" the call of stream.write or stream.setWindow
StreamCall(cn) == IF cn.stream = "none" THEN "unavailable" ELSE "called"

\* connection.writeInput(data)
SessWriteInput(c) ==
  /\ conns[c].exists
  /\ Commit(Cur)
  /\ lastLogin' = [kind |-> "writeInput", sock |-> "none", id |-> c,
                   outcome |-> StreamCall(conns[c]), teardown |-> "none",
                   arg |-> <<>>]
  /\ UNCHANGED <<gen, proc, fnIn, fnOut, thrVars, envHost, logins, nLogins, audit, produced,
                 nChunks, raceAtDisc, scen>>

\* connection.resize(size)
SessResize(c, size) ==
  /\ conns[c].exists
  /\ ~TerminalSizeThrows(size)
  /\ Commit(Cur)
  /\ lastLogin' = [kind |-> "resize", sock |-> "none", id |-> c,
                   outcome |-> StreamCall(conns[c]), teardown |-> "none",
                   arg |-> size]
  /\ UNCHANGED <<gen, proc, fnIn, fnOut, thrVars, envHost, logins, nLogins, audit, produced,
                 nChunks, raceAtDisc, scen>>

\* the calls, and the events of a stream that is there
SpecStreamCall ==
  /\ StreamCallInit
  /\ [][\/ \E c \in LoginIds, chunk \in Chunks :
            conns[c].stream # "none" /\ StreamData(c, chunk)
        \/ \E c \in LoginIds : conns[c].stream # "none" /\ StreamClose(c)
        \/ \E c \in LoginIds : ConnError(c)
        \/ \E c \in LoginIds : SessClose(c)
        \/ \E c \in LoginIds : SessWriteInput(c)
        \/ \E c \in LoginIds, size \in Sizes : SessResize(c, size)]_vars

\* ------------------------------------------------ functions on their own
\* everything but fnIn and fnOut
stateVars == <<now, records, thrCalls, thrReset, envHost, sockState,
               sessionData, logins, nLogins, connections, conns, subs,
               activeSessions, audit, emitLog, lastLogin, produced, sent,
               nChunks, raceAtDisc, scen, proc, gen>>

FnInit == ThrottleInit /\ BridgeInit("h") /\ ProcInit /\ GenIdle /\ fnOut = <<>>

\* ---- LoginThrottleService.getClientIp
\* the address tokens of the model, as they stand between the commas of a
\* header or in handshake.address
Tokens == {"10.0.0.5", "8.8.8.8", " 8.8.8.8", "::ffff:10.0.0.5"}

\* cleanIpToken: trim, unquote, drop an IPv4 port
CleanIpToken(tok) ==
  IF tok = " 8.8.8.8" \/ tok = "8.8.8.8:443" THEN "8.8.8.8"
  ELSE IF tok = "for=10.0.0.5" THEN "10.0.0.5"
  ELSE tok

\* normalizeIp: trim, drop the ::ffff: prefix and an IPv4 port
NormalizeIp(ip) ==
  IF ip = "::ffff:10.0.0.5" THEN "10.0.0.5"
  ELSE IF ip = "::ffff:127.0.0.1" THEN "127.0.0.1"
  ELSE IF ip = " 8.8.8.8" \/ ip = "8.8.8.8:443" THEN "8.8.8.8"
  ELSE ip

\* extractIp of a header value, given as its comma-separated tokens:
\* raw.split(',')[0]; "" is undefined
ExtractIp(value) ==
  IF value = <<>> THEN ""
  ELSE LET cleaned == CleanIpToken(value[1])
       IN IF cleaned = "" THEN "" ELSE NormalizeIp(cleaned)

\* headerOrder
HeaderOrder == <<"cf-connecting-ip", "true-client-ip", "x-real-ip",
                 "x-forwarded-for", "x-client-ip", "fastly-client-ip">>

RECURSIVE FirstHeaderIp(_, _)
\* for (const name of headerOrder) ...
FirstHeaderIp(headers, names) ==
  IF names = <<>> THEN ""
  ELSE LET ip == ExtractIp(headers[Head(names)])
       IN IF ip # "" THEN ip ELSE FirstHeaderIp(headers, Tail(names))

RECURSIVE ExtractForwardedIp(_)
\* extractForwardedIp: the first part with for=...
ExtractForwardedIp(parts) ==
  IF parts = <<>> THEN ""
  ELSE IF Head(parts) = "for=10.0.0.5"
       THEN NormalizeIp(CleanIpToken("10.0.0.5"))
       ELSE ExtractForwardedIp(Tail(parts))

\* getIpFromHeaders
GetIpFromHeaders(hs) ==
  LET ip == FirstHeaderIp(hs.headers, HeaderOrder)
  IN IF ip # "" THEN ip ELSE ExtractForwardedIp(hs.forwarded)

\* getClientIp
GetClientIp(hs) ==
  LET headerIp == GetIpFromHeaders(hs)
  IN IF headerIp # "" THEN headerIp ELSE NormalizeIp(hs.address)

\* the address chains of a header, up to MaxChain long
Chains == UNION {[1..n -> Tokens] : n \in 0..MaxChain}

\* socket.handshake: the headers a proxy chain and the client have set, and
\* the peer address
Handshake(real, xff, fwd, addr) ==
  [kind |-> "handshake",
   headers |-> [n \in {HeaderOrder[i] : i \in DOMAIN HeaderOrder} |->
                  IF n = "x-real-ip" THEN real
                  ELSE IF n = "x-forwarded-for" THEN xff ELSE <<>>],
   forwarded |-> fwd, address |-> addr]
Handshakes ==
  {Handshake(real, xff, fwd, addr) :
     real \in {<<>>, <<"8.8.8.8">>}, xff \in Chains,
     fwd \in {<<>>, <<"for=10.0.0.5">>},
     addr \in {"::ffff:127.0.0.1", "8.8.8.8:443"}}

ClientIpInit == FnInit /\ fnIn \in Handshakes

CallGetClientIp ==
  /\ fnIn.kind = "handshake"
  /\ fnOut = <<>>
  /\ fnOut' = <<GetClientIp(fnIn)>>
  /\ UNCHANGED <<fnIn, stateVars>>

SpecClientIp == ClientIpInit /\ [][CallGetClientIp]_vars

\* ---- the login handler that takes clientIp from the payload
\* the clientIp values a login payload carries; "" is none
PayloadIps == {"", "8.8.8.8", "9.9.9.9", "10.0.0.5"}

\* isValidPublicIP on the addresses of the model: a dotted quad that is not
\* in 10/8, 127/8, 192.168/16, 169.254/16 or 172.16/12
IsValidPublicIP(ip) == ip \in {"8.8.8.8", "9.9.9.9"}

\* throttleService.getFallbackIp: the address of the socket
GetFallbackIp(s) == "ip1"

\* clientIpAddress of a login
ClientIpAddress(clientIp, s) ==
  IF clientIp # "" /\ IsValidPublicIP(clientIp) THEN clientIp
  ELSE GetFallbackIp(s)

\* the throttle keys these logins can touch
PayloadKeys == {Key(ip, "h") : ip \in (PayloadIps \ {""}) \cup {GetFallbackIp("s1")}}

\* a run of logins to host "h" from one socket, each with a wrong password
FailingLogins == MaxFailures + 1

\* one login of the run: isBlocked, then the failed authentication's
\* registerFailure, both under clientIpAddress
PayloadLoginResult(recs, clientIp, s, t) ==
  LET ip == ClientIpAddress(clientIp, s)
      blk == IsBlocked(recs, ip, "h", t)
  IN [ip |-> ip, blocked |-> blk.blocked,
      records |-> IF blk.blocked THEN blk.records
                  ELSE RegisterFailure(blk.records, ip, "h", t)]

PayloadInit ==
  /\ FnInit
  /\ fnIn \in {[kind |-> "logins", ips |-> ips] :
                 ips \in [1..FailingLogins -> PayloadIps]}

PayloadLogin ==
  /\ fnIn.kind = "logins"
  /\ Len(fnOut) < Len(fnIn.ips)
  /\ LET recs == IF fnOut = <<>> THEN [k \in PayloadKeys |-> NoRec]
                 ELSE fnOut[Len(fnOut)].records
     IN fnOut' = Append(fnOut,
                   PayloadLoginResult(recs, fnIn.ips[Len(fnOut) + 1], "s1", now))
  /\ UNCHANGED <<fnIn, stateVars>>

SpecPayloadIp == PayloadInit /\ [][PayloadLogin]_vars

\* ---- AuditLogger.logAuthFailure
\* passwords, as their characters; <<>> is the empty or missing password
Passwords == UNION {[1..n -> {"a", "b"}] : n \in 0..MaxPwLen}

\* redactPassword: `<redacted:length=${len}>`
RedactPassword(pw) == <<"redacted:length=", Len(pw)>>

\* createHmac('sha256', secret).update(pw).digest('hex'): a value fixed by
\* the key and the message
Hmac(secret, pw) == <<"hmac-sha256", secret, pw>>

\* a hashPassword that hashes under an empty key when no secret is configured
HashPasswordUnkeyed(pw, secret) ==
  IF pw = <<>> THEN <<>> ELSE Hmac(secret, pw)

\* hashPassword: <<>> is undefined; "" is no AUDIT_LOG_HASH_SECRET
HashPassword(pw, secret) ==
  IF pw = <<>> \/ secret = "" THEN <<>> ELSE Hmac(secret, pw)

\* the record logAuthFailure builds, as JSON.stringify writes it: a field
\* whose value is undefined is left out
AuthFailureLine(entry, secret, ts) ==
  LET record == [ts |-> ts, ip |-> entry.ip, host |-> entry.host,
                 username |-> entry.username,
                 passwordRedacted |-> RedactPassword(entry.password),
                 reason |-> entry.reason, userAgent |-> entry.userAgent,
                 socketId |-> entry.socketId]
      hash == HashPassword(entry.password, secret)
  IN IF hash = <<>> THEN record ELSE record @@ [passwordHash |-> hash]

\* logAuthFailure: the lines it appends to the log
LogAuthFailure(entry, enabled, secret, ts) ==
  IF ~enabled THEN <<>> ELSE <<AuthFailureLine(entry, secret, ts)>>

\* the entry the login handler passes for a failed login
AuditEntry(pw, reason) ==
  [ip |-> "ip1", host |-> "h", username |-> "u", password |-> pw,
   reason |-> reason, userAgent |-> "ua", socketId |-> "s1"]

\* two failed logins that differ in the password only, the second at a time
\* of its own, under one configuration of the logger
AuditInit ==
  /\ FnInit
  /\ fnIn \in {[kind |-> "audit", enabled |-> en, secret |-> sec,
                reason |-> r, pws |-> <<p1, p2>>, at |-> <<0, t>>] :
                 en \in BOOLEAN, sec \in {"", "k"},
                 r \in {"auth_failed", "ssh_connect_failed"},
                 p1 \in Passwords, p2 \in Passwords, t \in {0, 1}}

\* the next call of logAuthFailure; fnOut holds, per call, the lines written
CallLogAuthFailure ==
  /\ fnIn.kind = "audit"
  /\ Len(fnOut) < Len(fnIn.pws)
  /\ LET i == Len(fnOut) + 1
     IN fnOut' = Append(fnOut,
                   LogAuthFailure(AuditEntry(fnIn.pws[i], fnIn.reason),
                                  fnIn.enabled, fnIn.secret, fnIn.at[i]))
  /\ UNCHANGED <<fnIn, stateVars>>

SpecAudit == AuditInit /\ [][CallLogAuthFailure]_vars

\* ---- new SSHConfig(host, port, timeout)
\* the constructor: the error it throws, or the object it leaves
NewSSHConfig(host, port, timeout) ==
  IF Trim(host) = ""
  THEN [throws |-> TRUE, message |-> "SSH host is required",
        host |-> "", port |-> 0, timeout |-> 0]
  ELSE IF port <= 0 \/ port > 65535
  THEN [throws |-> TRUE, message |-> "Invalid SSH port",
        host |-> "", port |-> 0, timeout |-> 0]
  ELSE [throws |-> FALSE, message |-> "",
        host |-> host, port |-> port, timeout |-> timeout]

\* the host, the port and the timeout the constructor is called with
ConfigInit ==
  /\ FnInit
  /\ fnIn \in {[kind |-> "sshconfig", host |-> h, port |-> p, timeout |-> t] :
                 h \in {"", " ", "h", " h"},
                 p \in {-1, 0, 1, 22, 65535, 65536},
                 t \in {-1, 0, 1, 30000}}

CallNewSSHConfig ==
  /\ fnIn.kind = "sshconfig"
  /\ fnOut = <<>>
  /\ fnOut' = <<NewSSHConfig(fnIn.host, fnIn.port, fnIn.timeout)>>
  /\ UNCHANGED <<fnIn, stateVars>>

SpecConfig == ConfigInit /\ [][CallNewSSHConfig]_vars

\* ---- new TerminalSize(cols, rows)
\* the constructor: the error it throws, or the object it leaves
NewTerminalSize(cols, rows) ==
  IF TerminalSizeThrows(<<cols, rows>>)
  THEN [throws |-> TRUE, message |-> "Terminal dimensions must be positive",
        cols |-> 0, rows |-> 0]
  ELSE [throws |-> FALSE, message |-> "", cols |-> cols, rows |-> rows]

\* the two numbers the constructor is called with
SizeInit ==
  /\ FnInit
  /\ fnIn \in {[kind |-> "size", cols |-> c, rows |-> r] :
                 c \in {-1, 0, 1, 2, 10, 24, 80, 132},
                 r \in {-1, 0, 1, 2, 10, 24, 80, 132}}

CallNewTerminalSize ==
  /\ fnIn.kind = "size"
  /\ fnOut = <<>>
  /\ fnOut' = <<NewTerminalSize(fnIn.cols, fnIn.rows)>>
  /\ UNCHANGED <<fnIn, stateVars>>

SpecSize == SizeInit /\ [][CallNewTerminalSize]_vars

\* ---- LoginThrottleService.formatRetryAfter
\* Math.ceil(a / b) for a >= 0 and b > 0
CeilDiv(a, b) == (a + b - 1) \div b

\* formatRetryAfter: the number and the unit of `${n} ${unit}${n === 1 ? '' : 's'}`
FormatRetryAfter(ms) ==
  LET seconds == CeilDiv(ms, 1000)
      minutes == CeilDiv(seconds, 60)
  IN IF minutes >= 1
     THEN [n |-> minutes, unit |-> "minute", plural |-> minutes # 1]
     ELSE [n |-> seconds, unit |-> "second", plural |-> seconds # 1]

\* the wait it is called with, in ms: every half second up to
\* MaxHalfSeconds of them, and the neighbours of the whole second and minute
RetryInit ==
  /\ FnInit
  /\ fnIn \in {[kind |-> "retry", ms |-> ms] :
                 ms \in {k * 500 : k \in 0..MaxHalfSeconds} \cup
                        {1, 999, 1001, 59001, 59999, 60001}}

CallFormatRetryAfter ==
  /\ fnIn.kind = "retry"
  /\ fnOut = <<>>
  /\ fnOut' = <<FormatRetryAfter(fnIn.ms)>>
  /\ UNCHANGED <<fnIn, stateVars>>

SpecRetry == RetryInit /\ [][CallFormatRetryAfter]_vars

\* ------------------------------------------------ the throttle on its own
ThrInit == ThrottleInit /\ FnIdle /\ ProcInit /\ GenIdle /\ BridgeInit("h")

ThrIsBlocked(ip, host) ==
  /\ records' = IsBlocked(records, ip, host, now).records
  /\ UNCHANGED <<now, thrCalls, thrReset, bridgeVars>>

ThrRegisterFailure(ip, host) ==
  /\ records' = RegisterFailure(records, ip, host, now)
  /\ thrCalls' = [thrCalls EXCEPT ![Key(ip, host)] =
                    IF Len(@) > MaxFailures THEN @ ELSE Append(@, now)]
  /\ UNCHANGED <<now, thrReset, bridgeVars>>

ThrRegisterSuccess(ip, host) ==
  /\ records' = RegisterSuccess(records, ip, host)
  /\ thrCalls' = [thrCalls EXCEPT ![Key(ip, host)] = <<>>]
  /\ thrReset' = [thrReset EXCEPT ![Key(ip, host)] =
                    IF LockActive(records[Key(ip, host)], now)
                    THEN "clearedLocked" ELSE "cleared"]
  /\ UNCHANGED <<now, bridgeVars>>

ThrTick == Tick /\ UNCHANGED <<records, thrCalls, thrReset, bridgeVars>>

ThrNext ==
  \/ \E ip \in ThrottleIps, h \in ThrottleHosts : ThrIsBlocked(ip, h)
  \/ \E ip \in ThrottleIps, h \in ThrottleHosts : ThrRegisterFailure(ip, h)
  \/ \E ip \in ThrottleIps, h \in ThrottleHosts : ThrRegisterSuccess(ip, h)
  \/ ThrTick

SpecThrottle == ThrInit /\ [][ThrNext]_vars

\* ------------------------------------------------ the pull-based output
\* everything but gen
pullKept == <<thrVars, envHost, sockState, sessionData, logins, nLogins,
              connections, conns, subs, activeSessions, audit, emitLog,
              lastLogin, produced, sent, nChunks, raceAtDisc, scen, fnIn,
              fnOut, proc>>

\* getTerminalOutput(id) was called for a live session: the generator object
\* exists and its body has not started. pc is where the body stands ("start",
\* "awaiting" the promise it made with outputResolver set, "suspended" at a
\* yield, "done"); emitted is the history of the chunks the session emitted
\* since the listeners were installed, yielded that of the values yielded
PullInit ==
  /\ ThrottleInit
  /\ BridgeInit("h")
  /\ ProcInit
  /\ FnIdle
  /\ gen = [pc |-> "start", outputQueue |-> <<>>, isEnded |-> FALSE,
            listening |-> FALSE, yielded |-> <<>>, emitted |-> <<>>,
            live |-> TRUE]

\* the consumer calls next(): the body runs from its start, where it installs
\* the listeners, or from the yield it is suspended at, to the head of the
\* loop and on to its next yield, its await or its end
PullNext ==
  LET g == IF gen.pc = "start" THEN [gen EXCEPT !.listening = TRUE] ELSE gen
  IN /\ gen.pc \in {"start", "suspended"}
     /\ gen' = IF g.isEnded
               THEN [g EXCEPT !.pc = "done", !.listening = FALSE]
               ELSE IF g.outputQueue # <<>>
               THEN [g EXCEPT !.pc = "suspended",
                              !.yielded = Append(@, Head(g.outputQueue)),
                              !.outputQueue = Tail(@)]
               ELSE [g EXCEPT !.pc = "awaiting"]
     /\ UNCHANGED pullKept

\* the session emits 'output': handleOutput, and the body if it was awaiting
PullHandleOutput(data) ==
  /\ gen.live /\ gen.listening
  /\ Len(gen.emitted) < MaxEmits
  /\ gen' = IF gen.pc = "awaiting"
            THEN [gen EXCEPT !.emitted = Append(@, data),
                             !.yielded = Append(@, data),
                             !.pc = "suspended"]
            ELSE [gen EXCEPT !.emitted = Append(@, data),
                             !.outputQueue = Append(@, data)]
  /\ UNCHANGED pullKept

\* the session emits 'disconnect': handleDisconnect, and the body if it was
\* awaiting, which breaks out of the loop and removes the listeners
PullHandleDisconnect ==
  /\ gen.live /\ gen.listening
  /\ gen' = IF gen.pc = "awaiting"
            THEN [gen EXCEPT !.live = FALSE, !.isEnded = TRUE, !.pc = "done",
                             !.listening = FALSE]
            ELSE [gen EXCEPT !.live = FALSE, !.isEnded = TRUE]
  /\ UNCHANGED pullKept

\* the session emits 'error': handleError, and the body if it was awaiting,
\* which yields the text it was resolved with
PullHandleError ==
  /\ gen.live /\ gen.listening
  /\ gen' = IF gen.pc = "awaiting"
            THEN [gen EXCEPT !.live = FALSE, !.isEnded = TRUE,
                             !.yielded = Append(@, "Error: " \o RawError),
                             !.pc = "suspended"]
            ELSE [gen EXCEPT !.live = FALSE, !.isEnded = TRUE]
  /\ UNCHANGED pullKept

SpecPull ==
  /\ PullInit
  /\ [][\/ PullNext
        \/ \E data \in {"A", "B"} : PullHandleOutput(data)
        \/ PullHandleDisconnect
        \/ PullHandleError]_vars

\* ---------------------------------------------- the throttle and its window
\* registerFailure, with thrCalls kept as the times of the failures of the
\* key since it was last locked or its record removed
WinRegisterFailure(ip, host) ==
  LET k == Key(ip, host)
      after == RegisterFailure(records, ip, host, now)
  IN /\ records' = after
     /\ thrCalls' = [thrCalls EXCEPT ![k] =
                       IF LockActive(after[k], now)
                       THEN <<>> ELSE Append(@, now)]
     /\ UNCHANGED <<now, thrReset, bridgeVars>>

SpecWindow ==
  /\ ThrInit
  /\ [][\/ \E ip \in ThrottleIps, h \in ThrottleHosts : ThrIsBlocked(ip, h)
        \/ \E ip \in ThrottleIps, h \in ThrottleHosts : WinRegisterFailure(ip, h)
        \/ \E ip \in ThrottleIps, h \in ThrottleHosts : ThrRegisterSuccess(ip, h)
        \/ ThrTick]_vars

\* ---------------------------------------------------------------- claims
\* exactly MaxFailures failures recorded for the key since it had no record,
\* all within the window of each other
ExactlyMaxWithinWindow(c) ==
  /\ Len(c) = MaxFailures
  /\ c[Len(c)] - c[1] <= WindowMs

\* C1: for every (ip, host) key that started with no record, after exactly
\* maxFailures registerFailure calls that fall within windowMs of each other,
\* isBlocked answers blocked=true with retryAfter = lockoutMs - (time since
\* the last failure) for as long as that lockout runs; after fewer than
\* maxFailures calls it answers blocked=false.
C1_LockoutAfterMaxFailures ==
  \A ip \in ThrottleIps, h \in ThrottleHosts :
    LET c == thrCalls[Key(ip, h)]
        r == IsBlocked(records, ip, h, now)
    IN /\ (ExactlyMaxWithinWindow(c) /\ now - c[Len(c)] < LockoutMs)
            => (r.blocked /\ r.retryAfterMs = LockoutMs - (now - c[Len(c)]))
       /\ Len(c) < MaxFailures => (~r.blocked /\ r.retryAfterMs = 0)

\* C1 witness: a key locked by exactly maxFailures failures spread over two
\* ticks, asked again one tick after the last of them
C1_Witness ==
  \E ip \in ThrottleIps, h \in ThrottleHosts :
    LET c == thrCalls[Key(ip, h)]
    IN /\ ExactlyMaxWithinWindow(c)
       /\ c[1] < c[Len(c)]
       /\ now = c[Len(c)] + 1
       /\ IsBlocked(records, ip, h, now).blocked

\* C2: after registerSuccess the key has no record and isBlocked answers
\* blocked=false, whatever came before (a lockout included); from there a
\* lockout needs maxFailures new failures, and maxFailures new failures
\* within the window produce one.
C2_SuccessResets ==
  \A ip \in ThrottleIps, h \in ThrottleHosts :
    LET k == Key(ip, h)
        c == thrCalls[k]
        r == IsBlocked(records, ip, h, now)
    IN thrReset[k] # "none" =>
         /\ c = <<>> => (records[k].absent /\ ~r.blocked)
         /\ Len(c) < MaxFailures => ~r.blocked
         /\ (ExactlyMaxWithinWindow(c) /\ now - c[Len(c)] < LockoutMs) => r.blocked

\* C2 witness: a locked key was cleared by registerSuccess and is asked again
C2_Witness ==
  \E ip \in ThrottleIps, h \in ThrottleHosts :
    /\ thrReset[Key(ip, h)] = "clearedLocked"
    /\ thrCalls[Key(ip, h)] = <<>>
    /\ ~IsBlocked(records, ip, h, now).blocked

\* ------------------------------------------------------- the bridge's claims
\* the login payload of the scenario: valid credentials, the host of the run
ScenPayload == Payload("u", "p", scen.host, <<>>)

\* C3: one client makes sequential failing logins to one host within the
\* failure window: while fewer than maxFailures of them have failed the next
\* login reaches the connection attempt, and once maxFailures have failed
\* the next login is answered as blocked.
C3_ScenarioB ==
  (scen.ok /\ ~scen.busy /\ scen.n > 0 /\ now - scen.t0 <= WindowMs) =>
    LET path == LoginPath(records, scen.sock, ScenPayload, now)
    IN /\ scen.n < MaxFailures => path = "connect"
       /\ scen.n = MaxFailures => path = "blocked"

\* C4: a login the throttle reports as blocked sends exactly one failure
\* loginResult and leaves the throttle records, the registry, the sessions,
\* the socket's session data, the auth sessions and the audit log as they
\* were.
C4_BlockedLoginDoesNothing ==
  [][(lastLogin'.kind = "start" /\ lastLogin'.outcome = "blocked") =>
       /\ Len(emitLog') = 1
       /\ emitLog'[1].type = "loginResult"
       /\ ~emitLog'[1].ok
       /\ records' = records
       /\ connections' = connections
       /\ conns' = conns
       /\ sessionData' = sessionData
       /\ activeSessions' = activeSessions
       /\ audit' = audit
       /\ logins' = logins
       /\ nLogins' = nLogins]_vars

\* C4 witness: a login has just been answered as blocked, with the time left
C4_Witness ==
  /\ lastLogin.kind = "start"
  /\ lastLogin.outcome = "blocked"
  /\ Len(emitLog) = 1
  /\ emitLog[1].text = "Too many failed attempts. Try again in"
  /\ emitLog[1].arg > 0
  /\ \E k \in Keys : records[k].blockedUntil > now

\* the sessions in the registry that the logins of socket s created
Owned(s) == {c \in connections : conns[c].sock = s}

\* C5: at most one session in the registry was created by a client
\* connection, and it is the one recorded for that connection.
C5_AtMostOneSession ==
  \A s \in Sockets :
    /\ Cardinality(Owned(s)) <= 1
    /\ Owned(s) # {} =>
         /\ sessionData[s].present
         /\ Owned(s) = {sessionData[s].sshConnectionId}

\* C6: a client disconnected while its login was awaiting createConnection:
\* once no login of that client is in flight any more, the registry holds no
\* session that client created.
C6_DisconnectClosesSession ==
  \A s \in Sockets :
    ( /\ sockState[s] = "disconnected"
      /\ raceAtDisc[s]
      /\ \A l \in LoginIds : InFlight(l) => logins[l].sock # s )
    => Owned(s) = {}

CountOf(seq, ev) == Cardinality({i \in DOMAIN seq : seq[i] = ev})

\* C7: close() called twice on one SSHConnection produces exactly one
\* "closed" notification.
C7_CloseIdempotent ==
  \A c \in LoginIds :
    conns[c].closeCalls = 2 => CountOf(conns[c].emitted, "closed") = 1

\* C8: the registry holds no session that has emitted "closed",
\* "disconnect" or "error".
C8_RegistryConsistent ==
  \A c \in connections :
    /\ conns[c].exists
    /\ \A i \in DOMAIN conns[c].emitted :
         conns[c].emitted[i] \notin {"closed", "disconnect", "error"}

\* C8 witness: the stream of a session closed when its client was long gone
\* (the socket cannot be closed again), and the session left the registry
C8_Witness ==
  \E c \in LoginIds :
    /\ conns[c].exists
    /\ raceAtDisc[conns[c].sock]
    /\ conns[c].emitted = <<"disconnect", "closed">>
    /\ c \notin connections

\* C9: after a session has emitted "disconnect" or "error" it emits no
\* "output".
C9_NoOutputAfterTerminal ==
  \A c \in LoginIds :
    \A i, j \in DOMAIN conns[c].emitted :
      (i < j /\ conns[c].emitted[i] \in {"disconnect", "error"})
        => conns[c].emitted[j] # "output"

\* the decoded chunks, in order
DecodeAll(chunks) == [i \in DOMAIN chunks |-> Utf8ToString(chunks[i])]

C11_TimeoutAbandons ==
  \A l \in LoginIds :
    logins[l].outcome = "timeout" =>
      /\ logins[l].stage = "done"
      /\ logins[l].client = "down"
      /\ logins[l].replies = 1
      /\ ~conns[l].exists
      /\ l \notin connections

\* C11 witness: a login timed out and a later login of the same run got its
\* session
C11_Witness ==
  \E l, l2 \in LoginIds :
    /\ logins[l].outcome = "timeout"
    /\ l < l2
    /\ logins[l2].outcome = "success"
    /\ l2 \in connections

\* C12: after every failed createConnection the client is torn down and the
\* registry has no entry for that connection.
C12_NoPartialResources ==
  \A l \in LoginIds :
    logins[l].outcome \in {"timeout", "sshfail"} =>
      /\ logins[l].client = "down"
      /\ l \notin connections

\* ------------------------------------------------- the login's two outcomes
\* the loginResult messages among the emits of a step
Replies(log) == {i \in DOMAIN log : log[i].type = "loginResult"}

\* C13: the step in which a login's session creation fails registers one
\* throttle failure under (clientIp, effectiveHost), appends one audit
\* record for that host, sends exactly one failing loginResult and leaves
\* the socket's session data as it was.
C13_FailedLoginAccounting ==
  [][(lastLogin'.kind = "resume" /\ lastLogin'.outcome = "sshfail") =>
       LET l == lastLogin'.id
           s == logins[l].sock
           eh == Trim(logins[l].host)
       IN /\ records' = RegisterFailure(records, ClientIp(s), eh, now)
          /\ Len(audit') = Len(audit) + 1
          /\ audit'[Len(audit')].host = eh
          /\ Len(emitLog') = 1
          /\ Replies(emitLog') = {1}
          /\ ~emitLog'[1].ok
          /\ sessionData' = sessionData]_vars

\* C14: the step in which a login succeeds sends loginResult{success:true}
\* and nothing else, leaves no throttle record for (clientIp, host), stores
\* the new session id in the socket's session data, and makes the count of
\* active sessions one higher.
C14_ScenarioA ==
  [][(lastLogin'.kind = "resume" /\ lastLogin'.outcome = "success") =>
       LET l == lastLogin'.id
           s == logins[l].sock
       IN /\ Len(emitLog') = 1
          /\ emitLog'[1].type = "loginResult"
          /\ emitLog'[1].ok
          /\ records'[Key(ClientIp(s), logins[l].host)].absent
          /\ sessionData'[s].present
          /\ sessionData'[s].sshConnectionId = l
          /\ l \in connections'
          /\ ActiveCount(conns', connections') = ActiveCount(conns, connections) + 1]_vars

\* C14 witness: a login has just succeeded and told its client so, after an
\* earlier login failed, and no throttle record is left
C14_Witness ==
  /\ lastLogin.kind = "resume"
  /\ lastLogin.outcome = "success"
  /\ emitLog # <<>>
  /\ emitLog[1].delivered
  /\ \E l \in LoginIds : logins[l].outcome \in {"sshfail", "timeout"}
  /\ \A k \in Keys : records[k].absent

\* ---------------------------------------------------- the session's end
\* session c is in the registry, active, and its client is subscribed
MidSession(c) ==
  /\ c \in connections
  /\ IsActive(conns[c])
  /\ ClientSubscribed(c)

\* C15: when the stream of a session in use closes or its connection reports
\* an error, the step sends the client an error notice and then closes the
\* socket, removes the session from the registry and leaves the count of
\* active sessions one lower.
C15_ScenarioD ==
  [][\A c \in LoginIds :
       ( /\ MidSession(c)
         /\ Len(conns'[c].emitted) > Len(conns[c].emitted)
         /\ conns'[c].emitted[Len(conns[c].emitted) + 1] \in {"disconnect", "error"} )
       => /\ Len(emitLog') = 2
          /\ emitLog'[1].type = "error"
          /\ emitLog'[1].delivered
          /\ emitLog'[2].type = "close"
          /\ emitLog'[2].sock = conns[c].sock
          /\ sockState'[conns[c].sock] = "disconnected"
          /\ c \notin connections'
          /\ ActiveCount(conns', connections') = ActiveCount(conns, connections) - 1]_vars

\* ------------------------------------------------ the terminal messages
\* what a message that is only answered leaves alone
BridgeStateUnchanged ==
  UNCHANGED <<records, conns, connections, sessionData, sockState, subs,
              activeSessions, logins, audit, sent>>

\* C16: an input message on a socket without a session is answered with one
\* error notice and changes nothing; an input whose forwarding fails is
\* answered with one error notice, and the socket stays open with its
\* session data as it was.
C16_InputHandling ==
  [][lastLogin'.kind = "input" =>
       LET s == lastLogin'.sock
       IN /\ ~HasSession(sessionData[s]) =>
               /\ Len(emitLog') = 1
               /\ emitLog'[1].type = "error"
               /\ emitLog'[1].text = "No active SSH connection"
               /\ BridgeStateUnchanged
          /\ (HasSession(sessionData[s]) /\ lastLogin'.outcome # "done") =>
               /\ Len(emitLog') = 1
               /\ emitLog'[1].type = "error"
               /\ sockState'[s] = "connected"
               /\ sessionData' = sessionData
               /\ connections' = connections]_vars

\* C16 witness: the write of an input to a live session failed
C16_Witness ==
  /\ lastLogin.kind = "input"
  /\ lastLogin.outcome = "callerror"
  /\ lastLogin.id \in connections
  /\ sockState[lastLogin.sock] = "connected"
  /\ emitLog[1].delivered

\* C17: a resize message on a socket without a session sends nothing and
\* changes nothing, whatever the size.
C17_ResizeWithoutSession ==
  [][(lastLogin'.kind = "resize" /\ ~HasSession(sessionData[lastLogin'.sock])) =>
       /\ emitLog' = <<>>
       /\ lastLogin'.outcome = "nosession"
       /\ BridgeStateUnchanged]_vars

\* C17 witness: a resize with cols = 0 came after the socket's login failed
C17_Witness ==
  /\ lastLogin.kind = "resize"
  /\ lastLogin.outcome = "nosession"
  /\ lastLogin.arg = <<0, 10>>
  /\ emitLog = <<>>
  /\ \E l \in LoginIds :
       logins[l].sock = lastLogin.sock /\ logins[l].outcome = "sshfail"

\* ------------------------------------------------------ the client address
\* private, loopback and link-local addresses of the model
IsPrivate(ip) == ip \in {"10.0.0.5", "127.0.0.1"}

\* the addresses the proxy headers of a handshake name
ChainIps(hs) ==
  {NormalizeIp(CleanIpToken(hs.headers["x-forwarded-for"][i])) :
     i \in DOMAIN hs.headers["x-forwarded-for"]}
  \cup {NormalizeIp(CleanIpToken(hs.headers["x-real-ip"][i])) :
          i \in DOMAIN hs.headers["x-real-ip"]}

\* C18: when the proxy headers name both a private and a routable address,
\* getClientIp does not answer the private one.
C18_NeverPrivate ==
  (fnOut # <<>> /\ fnIn.kind = "handshake") =>
    ( ( /\ \E ip \in ChainIps(fnIn) : IsPrivate(ip)
        /\ \E ip \in ChainIps(fnIn) : ~IsPrivate(ip) )
      => ~IsPrivate(fnOut[1]) )

\* C19: the IP under which a login is throttled does not depend on the
\* payload: every login of the run is keyed by the socket's address, and the
\* login that follows MaxFailures failed ones is refused as blocked
C19_PayloadIpNotTrusted ==
  (fnIn # <<>> /\ fnIn.kind = "logins") =>
    /\ \A i \in DOMAIN fnOut : fnOut[i].ip = GetFallbackIp("s1")
    /\ Len(fnOut) = FailingLogins => fnOut[FailingLogins].blocked

\* a line of the log without its timestamp
SansTs(line) == [f \in DOMAIN line \ {"ts"} |-> line[f]]

\* C20: no line of the audit log holds the password: a line has no password
\* field, its passwordRedacted is the length marker, and its passwordHash,
\* when present, is the keyed hash under the configured secret; with no
\* secret configured, two failures with passwords of one length that differ
\* in nothing else leave lines that are equal apart from the timestamp
C20_NoPlaintextPassword ==
  (fnIn # <<>> /\ fnIn.kind = "audit") =>
    /\ \A i \in DOMAIN fnOut : \A j \in DOMAIN fnOut[i] :
         LET line == fnOut[i][j]
             pw == fnIn.pws[i]
         IN /\ "password" \notin DOMAIN line
            /\ line.passwordRedacted = <<"redacted:length=", Len(pw)>>
            /\ "passwordHash" \in DOMAIN line =>
                 /\ fnIn.secret # ""
                 /\ line.passwordHash = Hmac(fnIn.secret, pw)
    /\ ( /\ Len(fnOut) = 2
         /\ fnIn.secret = ""
         /\ Len(fnIn.pws[1]) = Len(fnIn.pws[2]) )
       => /\ Len(fnOut[1]) = Len(fnOut[2])
          /\ \A j \in DOMAIN fnOut[1] : SansTs(fnOut[1][j]) = SansTs(fnOut[2][j])

\* two failures with different passwords of one length have been logged,
\* at different times, with no secret configured
C20_Witness ==
  /\ fnIn # <<>> /\ fnIn.kind = "audit"
  /\ fnIn.enabled /\ fnIn.secret = ""
  /\ fnIn.pws[1] # fnIn.pws[2]
  /\ Len(fnIn.pws[1]) = MaxPwLen /\ Len(fnIn.pws[2]) = MaxPwLen
  /\ Len(fnOut) = 2 /\ Len(fnOut[1]) = 1 /\ Len(fnOut[2]) = 1
  /\ fnOut[1][1].ts # fnOut[2][1].ts

\* the texts that hold the text of an error of the ssh2 client or stream
CarriesRawError(text) ==
  text \in {RawError} \cup
           {prefix \o RawError :
              prefix \in {"SSH connection failed: ", "Failed to create shell: ",
                          "Failed to send input to SSH connection: ",
                          "Failed to resize terminal: "}}

\* C21: no loginResult message and no error notice the bridge sends holds
\* the text of an error raised by the SSH transport
C21_NoRawErrors ==
  \A i \in DOMAIN emitLog :
    emitLog[i].type \in {"loginResult", "error"} => ~CarriesRawError(emitLog[i].text)

\* a login payload whose username or password is empty or blank, or whose
\* effective port is not in 1..65535
Malformed(p) ==
  \/ Trim(p.username) = "" \/ Trim(p.password) = ""
  \/ SshPort(p) < 1 \/ SshPort(p) > 65535

C23_ConfigValidation ==
  (fnOut # <<>> /\ fnIn.kind = "sshconfig") =>
    ( ~fnOut[1].throws <=>
        /\ Trim(fnIn.host) # ""
        /\ 0 < fnIn.port /\ fnIn.port <= 65535
        /\ fnIn.timeout > 0 )

\* C24: new TerminalSize throws when cols or rows is zero or negative, and
\* leaves an object with the two numbers when both are positive
C24_SizeValidation ==
  (fnOut # <<>> /\ fnIn.kind = "size") =>
    /\ (fnIn.cols <= 0 \/ fnIn.rows <= 0) => fnOut[1].throws
    /\ (fnIn.cols > 0 /\ fnIn.rows > 0) =>
         /\ ~fnOut[1].throws
         /\ fnOut[1].cols = fnIn.cols /\ fnOut[1].rows = fnIn.rows

\* C24 witness: TerminalSize(10, 0) has thrown
C24_Witness ==
  /\ fnIn # <<>> /\ fnIn.kind = "size"
  /\ fnIn.cols = 10 /\ fnIn.rows = 0
  /\ fnOut # <<>> /\ fnOut[1].throws

\* C25: for a wait of ms > 0, formatRetryAfter answers in minutes when the
\* wait is 60 s or more and in seconds when it is less
C25_RetryUnits ==
  (fnOut # <<>> /\ fnIn.kind = "retry" /\ fnIn.ms > 0) =>
    fnOut[1].unit = IF fnIn.ms >= 60000 THEN "minute" ELSE "second"

\* C26: writeInput and resize on a session whose stream is absent, ended by
\* close() or closed by the remote throw the stream-unavailable error and
\* make no call on the stream
C26_StreamUnavailable ==
  (lastLogin.kind \in {"writeInput", "resize"} /\ lastLogin.sock = "none") =>
    (conns[lastLogin.id].stream # "open" => lastLogin.outcome = "unavailable")

\* C27: closeAllConnections calls close() on every session that is in the
\* registry when it is called, and when it is done the registry is empty
\* and the count of active sessions is 0
C27_CloseAll ==
  [][lastLogin'.kind = "closeAll" =>
       /\ \A c \in connections :
            /\ conns'[c].closeCalls = conns[c].closeCalls + 1
            /\ conns'[c].stream # "open"
            /\ conns'[c].emitted = Append(conns[c].emitted, "closed")
       /\ connections' = {}
       /\ ActiveCount(conns', connections') = 0]_vars

\* C27 witness: closeAllConnections has run on a registry of two sessions
C27_Witness ==
  /\ lastLogin.kind = "closeAll"
  /\ Cardinality(lastLogin.arg[1]) = 2
  /\ \A c \in lastLogin.arg[1] : conns[c].closeCalls = 1

\* C28: after a signal the server takes no new connection and never listens
\* again; the graceful exit comes after the close of all sessions, with an
\* empty registry; the forced exit comes only once the deadline has passed;
\* and a process that got a signal exits in the end
C28_Shutdown ==
  /\ [][/\ proc.phase # "running" => ~proc'.accepting
        /\ (\E s \in Sockets : sockState[s] = "idle" /\ sockState'[s] = "connected")
             => proc.phase = "running"
        /\ (proc.exit = Undefined /\ proc'.exit = 0) =>
             /\ ~proc.accepting
             /\ lastLogin'.kind = "closeAll"
             /\ connections' = {}
        /\ (proc.exit = Undefined /\ proc'.exit = 1) =>
             proc.elapsed >= ForceExitMs]_vars
  /\ (proc.phase = "closing") ~> (proc.phase = "exited")

\* C28 witness: the process was forced to exit with a client still
\* connected and its session still in the registry
C28_Witness ==
  /\ proc.phase = "exited" /\ proc.exit = 1
  /\ \E s \in Sockets : sockState[s] = "connected"
  /\ connections # {}

\* C29: registerFailure on a key whose lockout runs sets blockedUntil to the
\* larger of its old value and now + lockoutMs and appends no timestamp; and
\* while a key is locked no step lowers its blockedUntil, short of the
\* registerSuccess that removes the record
C29_FailureExtendsLockout ==
  [][\A ip \in ThrottleIps, h \in ThrottleHosts :
       LET k == Key(ip, h)
           old == records[k]
       IN LockActive(old, now) =>
            /\ ThrRegisterFailure(ip, h) =>
                 /\ records'[k].blockedUntil = Max(old.blockedUntil, now + LockoutMs)
                 /\ records'[k].blockedUntil >= old.blockedUntil
                 /\ records'[k].timestamps = old.timestamps
                 /\ \A k2 \in Keys \ {k} : records'[k2] = records[k2]
            /\ ~records'[k].absent =>
                 records'[k].blockedUntil >= old.blockedUntil]_vars

\* C29 witness: a failure that came after the one that locked the key has
\* moved the end of the lockout
C29_Witness ==
  \E ip \in ThrottleIps, h \in ThrottleHosts :
    LET k == Key(ip, h)
        c == thrCalls[k]
    IN /\ Len(c) = MaxFailures + 1
       /\ c[MaxFailures + 1] > c[MaxFailures]
       /\ LockActive(records[k], now)
       /\ records[k].blockedUntil = c[MaxFailures + 1] + LockoutMs
       /\ records[k].blockedUntil > c[MaxFailures] + LockoutMs

\* the failure timestamps a record could hold at time t
StoredTimestamps(t) == {<<>>, <<0>>, <<t>>, <<0, t, t>>}

\* C30: for a key whose lockout runs, isBlocked answers blocked with
\* retryAfter = blockedUntil - now and leaves the records as they are,
\* whatever timestamps the record holds; and a call of isBlocked changes at
\* most the timestamps of its key, to those within the window, and no other
\* key
C30_IsBlockedFrame ==
  [][\A ip \in ThrottleIps, h \in ThrottleHosts :
       LET k == Key(ip, h)
           old == records[k]
       IN /\ LockActive(old, now) =>
               \A ts \in StoredTimestamps(now) :
                 LET recs == [records EXCEPT ![k].timestamps = ts]
                     r == IsBlocked(recs, ip, h, now)
                 IN /\ r.blocked
                    /\ r.retryAfterMs = old.blockedUntil - now
                    /\ r.records = recs
          /\ ThrIsBlocked(ip, h) =>
               /\ \A k2 \in Keys \ {k} : records'[k2] = records[k2]
               /\ \/ records'[k] = old
                  \/ /\ ~old.absent
                     /\ records'[k] = Rec(SelectWithin(old.timestamps, now),
                                          old.blockedUntil)]_vars

\* C30 witness: a key is asked about part of the way through its lockout
C30_Witness ==
  \E ip \in ThrottleIps, h \in ThrottleHosts :
    LET k == Key(ip, h)
        r == IsBlocked(records, ip, h, now)
    IN /\ LockActive(records[k], now)
       /\ r.blocked
       /\ r.retryAfterMs = records[k].blockedUntil - now
       /\ 0 < r.retryAfterMs /\ r.retryAfterMs < LockoutMs
       /\ r.records = records

\* how many of the times ts lie within the window that ends at t
RECURSIVE WithinWindow(_, _)
WithinWindow(ts, t) ==
  IF ts = <<>> THEN 0
  ELSE (IF t - Head(ts) <= WindowMs THEN 1 ELSE 0) + WithinWindow(Tail(ts), t)

\* C31: a registerFailure on a key that is not locked locks it, until
\* now + lockoutMs, exactly when the failures of the key since its last
\* lockout or success that lie within the window, this one counted, number
\* maxFailures or more; and a key whose blockedUntil has passed is not
\* reported as blocked
C31_RollingWindow ==
  /\ [][\A ip \in ThrottleIps, h \in ThrottleHosts :
          LET k == Key(ip, h)
          IN (~LockActive(records[k], now) /\ WinRegisterFailure(ip, h)) =>
               /\ LockActive(records'[k], now) <=>
                    WithinWindow(Append(thrCalls[k], now), now) >= MaxFailures
               /\ LockActive(records'[k], now) =>
                    records'[k].blockedUntil = now + LockoutMs]_vars
  /\ [](\A ip \in ThrottleIps, h \in ThrottleHosts :
          LET k == Key(ip, h)
          IN (~records[k].absent /\ ~LockActive(records[k], now))
               => ~IsBlocked(records, ip, h, now).blocked)

\* C31 witness: maxFailures failures spread over more than the window, the
\* last of them now, have left the key unlocked
C31_Witness ==
  \E ip \in ThrottleIps, h \in ThrottleHosts :
    LET k == Key(ip, h)
        c == thrCalls[k]
    IN /\ Len(c) >= MaxFailures
       /\ c[Len(c)] = now
       /\ ~records[k].absent
       /\ ~LockActive(records[k], now)
       /\ ~IsBlocked(records, ip, h, now).blocked

\* C32: every stored record holds fewer than maxFailures failure timestamps,
\* so that isBlocked, which locks a key only on finding maxFailures of them
\* within the window, never establishes a lockout of its own
C32_RecordBound ==
  \A ip \in ThrottleIps, h \in ThrottleHosts :
    LET k == Key(ip, h)
    IN /\ Len(records[k].timestamps) < MaxFailures
       /\ IsBlocked(records, ip, h, now).blocked => LockActive(records[k], now)

\* C32 witness: a key with maxFailures or more failures behind it holds
\* maxFailures - 1 timestamps
C32_Witness ==
  \E k \in Keys : /\ Len(thrCalls[k]) >= MaxFailures
                  /\ Len(records[k].timestamps) = MaxFailures - 1

\* C33: the host a login keeps for registering its failure gives the
\* throttle key that isBlocked was consulted with when the login started
C33_KeyConsistency ==
  [][\A s \in Sockets, p \in Payloads :
       (LoginPath(records, s, p, now) = "connect" /\ LoginMsg(s, p)) =>
         Key(ClientIp(s), logins'[nLogins'].host)
           = Key(ClientIp(s), EffectiveHost(p))]_vars

\* the logins for which createConnection was called
Attempts == {l \in LoginIds : logins[l].outcome \in {"connect", "timeout", "sshfail"}}

\* C34: with no successful login and no lockout expiry, at most maxFailures
\* remote connection attempts are started for one key, however the logins
\* overlap
C34_AttemptBound == Cardinality(Attempts) <= MaxFailures

\* the loginResult messages among the emits ms
LoginResults(ms) == SelectSeq(ms, LAMBDA m : m.type = "loginResult")

\* C35: no step of the handler sends more than one loginResult, a login whose
\* handler resumes after createConnection has not been answered before, and
\* so no login is answered more than once, with a success and a failure or
\* otherwise
C35_OneReply ==
  /\ [][/\ Len(LoginResults(emitLog')) <= 1
        /\ (lastLogin'.kind = "resume" /\ LoginResults(emitLog') # <<>>)
             => logins[lastLogin'.id].replies = 0]_vars
  /\ [](\A l \in LoginIds : logins[l].replies <= 1)

\* C35 witness: a login was answered with a failure, and a later event of its
\* client, which is down now, was handled without a message
C35_Witness ==
  \E l \in LoginIds : /\ logins[l].stage = "done"
                      /\ logins[l].replies = 1
                      /\ logins[l].outcome = "sshfail"
                      /\ logins[l].client = "down"
                      /\ lastLogin = NoLast
                      /\ emitLog = <<>>

\* C36: every login that awaits createConnection is answered with a
\* loginResult in the end, also when the remote becomes ready and then never
\* completes the shell request
C36_LoginAnswered ==
  \A l \in LoginIds : InFlight(l) ~> (logins[l].replies = 1)

\* C37: once the disconnect handler of a client connection has run, the
\* active-session map of the AuthenticationService holds no session that a
\* login on that connection created
C37_AuthSessionCleanup ==
  \A s \in Sockets :
    sockState[s] = "disconnected" =>
      \A l \in activeSessions : logins[l].sock # s

\* C38: no output message and no error notice of an SSH session is sent to
\* a socket whose disconnect event has been handled
C38_NoEmitAfterDisconnect ==
  [][\A i \in 1..Len(emitLog') :
       emitLog'[i].type \in {"output", "error"} => emitLog'[i].delivered]_vars

\* whether the sequence a is an initial part of the sequence b
IsPrefix(a, b) == Len(a) <= Len(b) /\ SubSeq(b, 1, Len(a)) = a

\* C39: what getTerminalOutput has yielded is, in order, what the session
\* emitted since the subscription, and all of it once the generator has
\* finished after the session's disconnect or error
C39_PullAdapter ==
  /\ IsPrefix(gen.yielded, gen.emitted)
  /\ gen.pc = "done" => gen.yielded = gen.emitted

====
